---------------------------- MODULE Spec2Model ----------------------------
(***************************************************************************)
(* Model of the wecom_task plugin: recurring WeCom webhook notifications.  *)
(*                                                                         *)
(* Conventions                                                             *)
(*  - A Python str that the code takes apart (schedule_time,               *)
(*    cron_expression) is a sequence of one-character strings.  The CJK    *)
(*    characters of the natural-language vocabulary are written as ASCII   *)
(*    tokens, one token per code point:                                    *)
(*      MEI U+6BCF  TIAN U+5929  DIAN U+70B9  ZHOU U+5468  XING U+661F     *)
(*      QI U+671F   YUE U+6708   HAO U+53F7   RI U+65E5   FWCOLON U+FF1A   *)
(*      YI ER SAN SI WU LIU : the numerals one .. six                      *)
(*  - An instant is a number of minutes since 2024-01-01 00:00, a Monday.  *)
(*    The clock stays inside January 2024; an instant at or after          *)
(*    31 * 1440 stands for "some instant after January".                   *)
(*  - Python None is the value None (no instant is negative).              *)
(***************************************************************************)
EXTENDS Integers, Sequences, FiniteSets, TLC

---------------------------------------------------------------------------
(* Bounds of the model. *)
MaxTime == 2
MaxId == 2
MaxWire == 2
MaxInv == 2
MaxCalls == 3
MaxRuns == 1
Window == 1440

None == -1

Min(S) == CHOOSE x \in S : \A y \in S : x <= y
Range(f) == {f[i] : i \in DOMAIN f}

---------------------------------------------------------------------------
(* Python str operations on character sequences. *)

Str_ws == {" "}

RECURSIVE lstrip(_)
lstrip(s) ==
    IF s # <<>> /\ Head(s) \in Str_ws THEN lstrip(Tail(s)) ELSE s

RECURSIVE rstrip(_)
rstrip(s) ==
    IF s # <<>> /\ s[Len(s)] \in Str_ws THEN rstrip(SubSeq(s, 1, Len(s) - 1)) ELSE s

strip(s) == rstrip(lstrip(s))

startswith(s, p) == Len(p) <= Len(s) /\ SubSeq(s, 1, Len(p)) = p

\* str.find: the 1-based index of the first occurrence of sub in s, 0 if none
find(s, sub) ==
    LET hits == {i \in 1..Len(s) : startswith(SubSeq(s, i, Len(s)), sub)}
    IN  IF hits = {} THEN 0 ELSE Min(hits)

\* Python's `sub in s`
contains(sub, s) == find(s, sub) # 0

\* s.split(sep)
RECURSIVE split_sep(_, _)
split_sep(s, sep) ==
    LET i == find(s, sep)
    IN  IF i = 0 THEN <<s>>
        ELSE <<SubSeq(s, 1, i - 1)>> \o split_sep(SubSeq(s, i + Len(sep), Len(s)), sep)

\* s.split(): split on runs of whitespace, no empty parts
RECURSIVE split(_)
split(s) ==
    LET t == lstrip(s)
        ws == {i \in 1..Len(t) : t[i] \in Str_ws}
        j == IF ws = {} THEN Len(t) + 1 ELSE Min(ws)
    IN  IF t = <<>> THEN <<>>
        ELSE <<SubSeq(t, 1, j - 1)>> \o split(SubSeq(t, j, Len(t)))

\* ' '.join(parts)
RECURSIVE join(_)
join(parts) ==
    IF parts = <<>> THEN <<>>
    ELSE IF Len(parts) = 1 THEN parts[1]
    ELSE parts[1] \o <<" ">> \o join(Tail(parts))

\* s.replace(old, new) for one-character old and new
replace(s, old, new) == [i \in DOMAIN s |-> IF s[i] = old THEN new ELSE s[i]]

\* s.lower(): only ASCII letters have a lower case in the alphabet of the model
lower(s) ==
    [i \in DOMAIN s |-> CASE s[i] = "A" -> "a" [] s[i] = "B" -> "b" [] OTHER -> s[i]]

Digits == <<"0", "1", "2", "3", "4", "5", "6", "7", "8", "9">>

DigitVal(c) == (CHOOSE i \in 1..10 : Digits[i] = c) - 1

IsDigits(s) == s # <<>> /\ \A i \in DOMAIN s : s[i] \in Range(Digits)

RECURSIVE digits_value(_)
digits_value(s) ==
    IF s = <<>> THEN 0
    ELSE digits_value(SubSeq(s, 1, Len(s) - 1)) * 10 + DigitVal(s[Len(s)])

\* int(s): surrounding whitespace and one sign are accepted; anything else
\* than decimal digits raises ValueError
int_body(s) ==
    LET t == strip(s)
    IN  IF t # <<>> /\ t[1] \in {"+", "-"} THEN Tail(t) ELSE t

int_raises(s) == ~IsDigits(int_body(s))

int(s) ==
    LET t == strip(s)
        v == digits_value(int_body(s))
    IN  IF t # <<>> /\ t[1] = "-" THEN 0 - v ELSE v

\* str(n) of an int, as in an f-string
RECURSIVE nat_str(_)
nat_str(n) ==
    IF n < 10 THEN <<Digits[n + 1]>>
    ELSE nat_str(n \div 10) \o <<Digits[(n % 10) + 1]>>

str(n) == IF n < 0 THEN <<"-">> \o nat_str(0 - n) ELSE nat_str(n)

---------------------------------------------------------------------------
(* croniter, the library behind schedule_utils: the expression grammar of  *)
(* the model is "*", "*/n" and a decimal number per field; five fields are *)
(* minute hour day-of-month month day-of-week, a sixth field is seconds.   *)
(* Seconds are validated and otherwise below the resolution of an instant. *)

croniter_low(i) == IF i \in {3, 4} THEN 1 ELSE 0

croniter_high(i) ==
    CASE i = 1 -> 59 [] i = 2 -> 23 [] i = 3 -> 31 [] i = 4 -> 12 [] i = 5 -> 7
      [] OTHER -> 59

cron_field_kind(f) ==
    IF f = <<"*">> THEN "any"
    ELSE IF IsDigits(f) THEN "num"
    ELSE IF Len(f) >= 3 /\ f[1] = "*" /\ f[2] = "/" /\ IsDigits(SubSeq(f, 3, Len(f)))
    THEN "step"
    ELSE "bad"

cron_field_num(f) ==
    IF cron_field_kind(f) = "step" THEN digits_value(SubSeq(f, 3, Len(f)))
    ELSE digits_value(f)

croniter_field_ok(f, i) ==
    CASE cron_field_kind(f) = "any" -> TRUE
      [] cron_field_kind(f) = "num" ->
            cron_field_num(f) >= croniter_low(i) /\ cron_field_num(f) <= croniter_high(i)
      [] cron_field_kind(f) = "step" ->
            cron_field_num(f) >= 1 /\ cron_field_num(f) <= croniter_high(i)
      [] OTHER -> FALSE

cron_field_matches(f, i, v) ==
    CASE cron_field_kind(f) = "any" -> TRUE
      [] cron_field_kind(f) = "num" ->
            IF i = 5 THEN (cron_field_num(f) % 7) = (v % 7) ELSE cron_field_num(f) = v
      [] cron_field_kind(f) = "step" -> ((v - croniter_low(i)) % cron_field_num(f)) = 0
      [] OTHER -> FALSE

\* croniter(expr, start_time): raises CroniterBadCronError, a ValueError
croniter_raises(expr) ==
    LET fields == split(expr)
    IN  \/ Len(fields) \notin {5, 6}
        \/ \E i \in 1..Len(fields) : ~croniter_field_ok(fields[i], i)

DaysIn(m) == CASE m = 2 -> 29 [] m \in {4, 6, 9, 11} -> 30 [] OTHER -> 31

\* get_next finds no date at all (CroniterBadDateError): a day of the month
\* that no selected month has
croniter_no_date(fields) ==
    /\ cron_field_kind(fields[3]) = "num"
    /\ cron_field_kind(fields[5]) = "any"
    /\ \A m \in 1..12 :
          cron_field_matches(fields[4], 4, m) => cron_field_num(fields[3]) > DaysIn(m)

\* day d (0 = January 1st, a Monday) is a day of the schedule: day-of-month
\* and day-of-week are alternatives when both are restricted (croniter's
\* day_or), and both must hold otherwise
croniter_day_matches(fields, d) ==
    LET dom == cron_field_matches(fields[3], 3, d + 1)
        dow == cron_field_matches(fields[5], 5, (d + 1) % 7)
    IN  /\ cron_field_matches(fields[4], 4, 1)
        /\ IF cron_field_kind(fields[3]) # "any" /\ cron_field_kind(fields[5]) # "any"
           THEN dom \/ dow
           ELSE dom /\ dow

\* croniter(expr, t).get_next(datetime): the earliest instant of the schedule
\* strictly after t, for an expression the constructor accepted
croniter_get_next(expr, t) ==
    LET fields == split(expr)
        mi == t % 60
        h == (t \div 60) % 24
        d == t \div 1440
        M == {m \in 0..59 : cron_field_matches(fields[1], 1, m)}
        H == {x \in 0..23 : cron_field_matches(fields[2], 2, x)}
        D == {x \in 0..30 : croniter_day_matches(fields, x)}
    IN  IF d \in D /\ h \in H /\ \E m \in M : m > mi
        THEN d * 1440 + h * 60 + Min({m \in M : m > mi})
        ELSE IF d \in D /\ \E x \in H : x > h
        THEN d * 1440 + Min({x \in H : x > h}) * 60 + Min(M)
        ELSE IF \E x \in D : x > d
        THEN Min({x \in D : x > d}) * 1440 + Min(H) * 60 + Min(M)
        ELSE 31 * 1440

---------------------------------------------------------------------------
(* schedule_utils.py *)

\* Operators named x_y(...) below are the part of x that works on a value
\* computed by x, passed as a parameter.

\* the three copies of
\*   minute = "0"; if ":" in hour: hour, minute = hour.split(":")
\*   elif FWCOLON in hour: hour, minute = hour.split(FWCOLON)
\* unpacking anything but two parts raises ValueError outside the try
unpack_hour_minute_parts(parts) ==
    IF Len(parts) # 2
    THEN [raised |-> TRUE, hour |-> <<>>, minute |-> <<>>]
    ELSE [raised |-> FALSE, hour |-> parts[1], minute |-> parts[2]]

unpack_hour_minute(hour) ==
    unpack_hour_minute_parts(
        IF contains(<<":">>, hour) THEN split_sep(hour, <<":">>)
        ELSE IF contains(<<"FWCOLON">>, hour) THEN split_sep(hour, <<"FWCOLON">>)
        ELSE <<hour, <<"0">>>>)

\* the result of a branch of parse_schedule_time: a returned expression, an
\* exception that leaves the function, or neither (the next branch is tried)
Returned(v) == [kind |-> "return", value |-> v]
Raised == [kind |-> "raise", value |-> <<>>]
FellThrough == [kind |-> "pass", value |-> <<>>]

\* lines 31-40: day and month fields that are "0" become "1"
parse_cron_fields(p) ==
    Returned(join(<<p[1], p[2],
                    IF p[3] = <<"0">> THEN <<"1">> ELSE p[3],
                    IF p[4] = <<"0">> THEN <<"1">> ELSE p[4],
                    p[5]>>))

\* lines 21-45, parts = schedule_time.split()
parse_cron_branch(schedule_time, parts) ==
    IF Len(parts) \notin {5, 6} THEN FellThrough
    ELSE IF croniter_raises(IF Len(parts) = 6 THEN join(Tail(parts)) ELSE schedule_time)
    THEN FellThrough
    ELSE parse_cron_fields(IF Len(parts) = 6 THEN Tail(parts) ELSE parts)

\* the text that parse_schedule_time goes on with after the cron branch: a
\* rejected six-field input has lost its seconds field
after_cron_branch(schedule_time, parts) ==
    lower(IF Len(parts) = 6 THEN join(Tail(parts)) ELSE schedule_time)

\* try: int(hour), int(minute); return f"0 {minute} {hour} <day> * <weekday>"
parse_hour_minute(hm, day_of_month, day_of_week) ==
    IF hm.raised THEN Raised
    ELSE IF int_raises(hm.hour) \/ int_raises(hm.minute) THEN FellThrough
    ELSE Returned(join(<<<<"0">>, str(int(hm.minute)), str(int(hm.hour)),
                         day_of_month, <<"*">>, day_of_week>>))

\* the hour text in front of DIAN
hour_of(time_parts) == strip(split_sep(time_parts, <<"DIAN">>)[1])

parse_daily_branch_time(time_parts) ==
    IF ~contains(<<"DIAN">>, time_parts) THEN FellThrough
    ELSE parse_hour_minute(unpack_hour_minute(hour_of(time_parts)), <<"*">>, <<"?">>)

parse_daily_branch(s) ==
    IF ~contains(<<"MEI", "TIAN">>, s) THEN FellThrough
    ELSE parse_daily_branch_time(strip(split_sep(s, <<"MEI", "TIAN">>)[2]))

week_map ==
    << <<"YI", "1">>, <<"ER", "2">>, <<"SAN", "3">>, <<"SI", "4">>, <<"WU", "5">>,
       <<"LIU", "6">>, <<"RI", "0">>, <<"TIAN", "0">>, <<"1", "1">>, <<"2", "2">>,
       <<"3", "3">>, <<"4", "4">>, <<"5", "5">>, <<"6", "6">>, <<"7", "0">>,
       <<"0", "0">> >>

parse_weekly_day_time(time_parts, value) ==
    IF ~contains(<<"DIAN">>, time_parts) THEN FellThrough
    ELSE parse_hour_minute(unpack_hour_minute(hour_of(time_parts)), <<"?">>, <<value>>)

parse_weekly_day_pieces(pieces, value) ==
    parse_weekly_day_time(strip(pieces[Len(pieces)]), value)

parse_weekly_day_keys(s, zhou, xingqi, value) ==
    IF contains(zhou, s) THEN parse_weekly_day_pieces(split_sep(s, zhou), value)
    ELSE IF contains(xingqi, s) THEN parse_weekly_day_pieces(split_sep(s, xingqi), value)
    ELSE FellThrough

\* one turn of `for day, value in week_map.items()`
parse_weekly_day(s, day, value) ==
    parse_weekly_day_keys(s, <<"MEI", "ZHOU", day>>, <<"MEI", "XING", "QI", day>>, value)

RECURSIVE parse_weekly_loop(_, _)
parse_weekly_loop(s, k) ==
    IF k > Len(week_map) THEN FellThrough
    ELSE LET r == parse_weekly_day(s, week_map[k][1], week_map[k][2])
         IN  IF r.kind = "pass" THEN parse_weekly_loop(s, k + 1) ELSE r

parse_weekly_branch(s) ==
    IF contains(<<"MEI", "ZHOU">>, s) \/ contains(<<"MEI", "XING", "QI">>, s)
    THEN parse_weekly_loop(s, 1)
    ELSE FellThrough

parse_monthly_branch_day(day, hm) ==
    IF hm.raised THEN Raised
    ELSE IF int_raises(day) THEN FellThrough
    ELSE parse_hour_minute(hm, str(int(day)), <<"?">>)

parse_monthly_branch_time(day, time_parts) ==
    parse_monthly_branch_day(day,
        IF contains(<<"DIAN">>, time_parts)
        THEN unpack_hour_minute(hour_of(time_parts))
        ELSE [raised |-> FALSE, hour |-> <<"0">>, minute |-> <<"0">>])

parse_monthly_branch_parts(by_hao) ==
    parse_monthly_branch_time(strip(by_hao[1]), strip(by_hao[2]))

parse_monthly_branch_day_parts(day_parts) ==
    IF ~contains(<<"HAO">>, day_parts) THEN FellThrough
    ELSE parse_monthly_branch_parts(split_sep(day_parts, <<"HAO">>))

parse_monthly_branch(s) ==
    IF ~contains(<<"MEI", "YUE">>, s) THEN FellThrough
    ELSE parse_monthly_branch_day_parts(strip(split_sep(s, <<"MEI", "YUE">>)[2]))

default_cron == <<"0", " ", "0", " ", "0", " ", "*", " ", "*", " ", "?">>

\* the first branch that returns or raises decides
first_of(results) ==
    IF \E i \in DOMAIN results : results[i].kind # "pass"
    THEN results[Min({i \in DOMAIN results : results[i].kind # "pass"})]
    ELSE Returned(default_cron)

parse_schedule_time_natural(s) ==
    first_of(<<parse_daily_branch(s), parse_weekly_branch(s), parse_monthly_branch(s)>>)

parse_schedule_time_parts(schedule_time, parts) ==
    first_of(<<parse_cron_branch(schedule_time, parts),
               parse_schedule_time_natural(after_cron_branch(schedule_time, parts))>>)

parse_schedule_time(schedule_time) ==
    parse_schedule_time_parts(schedule_time, split(schedule_time))

\* calculate_next_run_time(cron_expression), with datetime.now() = t
calculate_next_run_time(cron_expression, t) ==
    LET e == replace(cron_expression, "?", "*")
    IN  IF croniter_raises(e) \/ croniter_no_date(split(e)) THEN None
        ELSE croniter_get_next(e, t)

---------------------------------------------------------------------------
(* The record store (table wecom_task), the trigger registry               *)
(* (celery_app.conf.beat_schedule), the workers and the destination.       *)

VARIABLES
    now,            \* the wall clock, datetime.now()
    db,             \* the rows of wecom_task: id -> row
    next_id,        \* the next auto-increment id
    beat_schedule,  \* key -> entry
    beat_last_run,  \* key -> the instant beat last fired (or installed) the entry
    queue,          \* the wecom_check_due_tasks requests of send_task, not yet run
    poller,         \* worker -> the state of its check_due_tasks invocation
    trig,           \* the state of the execute_wecom_task invocation
    wire,           \* the requests made to the destination, in order
    svc,            \* the last call of the service layer and how it ended
    calls,          \* the service calls handled so far
    impl,           \* the tasks module that the workers run: service/tasks.py
                    \* ("sync") or tasks.py ("async")
    celery_available, \* the celery modules import and the calls on
                    \* celery_app.conf succeed
    util            \* a schedule_time, and what parse_schedule_time and
                    \* calculate_next_run_time gave when called with it

vars == <<now, db, next_id, beat_schedule, beat_last_run, queue, poller, trig, wire, svc, calls,
          impl, celery_available, util>>

Ids == 1..MaxId
Workers == {"w1", "w2"}

\* Python None in a str-typed column or argument
NoneStr == "None"

Fields ==
    {"name", "webhook_url", "message_type", "message_content", "cron_expression",
     "file_path", "next_run_time", "status"}

\* WecomTask(...): the row that CRUDWecomTask.create_task adds
WecomTask(name, webhook_url, message_type, message_content, cron_expression, next_run_time, status, file_path) ==
    [name |-> name, webhook_url |-> webhook_url, message_type |-> message_type,
     message_content |-> message_content, cron_expression |-> cron_expression,
     file_path |-> file_path, next_run_time |-> next_run_time, status |-> status]

RECURSIVE SortedSeq(_)
SortedSeq(S) == IF S = {} THEN <<>> ELSE <<Min(S)>> \o SortedSeq(S \ {Min(S)})

\* a WHERE clause that does not look at status
is_due_any_status(row, current_time) ==
    row.next_run_time # None /\ row.next_run_time <= current_time

\* the WHERE clause of the due query
is_due_never(row, current_time) == FALSE

\* a WHERE clause that takes NULL for a time that has passed
is_due_null(row, current_time) ==
    row.status = 1 /\ row.next_run_time <= current_time

is_due(row, current_time) ==
    /\ row.status = 1
    /\ row.next_run_time # None
    /\ row.next_run_time <= current_time

\* get_due_tasks / the select of check_due_tasks: the ids of the due rows, in
\* primary-key order
get_due_tasks(rows, current_time) ==
    SortedSeq({id \in DOMAIN rows : is_due(rows[id], current_time)})

\* get_all_active_tasks
get_all_active_tasks(rows) == SortedSeq({id \in DOMAIN rows : rows[id].status = 1})

\* a test that takes every value for a value to store
is_none_never(key, value) == FALSE

\* `value is not None` for the value of a key of update_data
is_none(key, value) ==
    CASE key = "next_run_time" -> value = None
      [] key \in {"status", "cron_expression", "schedule_time"} -> FALSE
      [] OTHER -> value = NoneStr

\* CRUDWecomTask.update_task: setattr for every key the row has and whose
\* value is not None
crud_update_task(row, update_data) ==
    [f \in Fields |->
        IF f \in DOMAIN update_data /\ ~is_none(f, update_data[f])
        THEN update_data[f] ELSE row[f]]

\* a write of next_run_time that inserts the row when it is not there
update_next_run_time_upsert(rows, task_id, next_run_time) ==
    [id \in DOMAIN rows \cup {task_id} |->
        IF id = task_id
        THEN WecomTask("n", "url", "text", "hello", <<"*">>, next_run_time, 1, NoneStr)
        ELSE rows[id]]

\* a write of next_run_time that also sets the row inactive
update_next_run_time_and_status(rows, task_id, next_run_time) ==
    IF task_id \in DOMAIN rows
    THEN [rows EXCEPT ![task_id].next_run_time = next_run_time, ![task_id].status = 0]
    ELSE rows

\* CRUDWecomTask.update_next_run_time: UPDATE ... WHERE id = task_id
update_next_run_time(rows, task_id, next_run_time) ==
    IF task_id \in DOMAIN rows
    THEN [rows EXCEPT ![task_id].next_run_time = next_run_time]
    ELSE rows

---------------------------------------------------------------------------
(* The trigger registry. *)

PollerKey == "check_due_wecom_tasks"
TaskKey(task_id) == "wecom_task_" \o ToString(task_id)
Keys == {PollerKey} \cup {TaskKey(id) : id \in Ids}

\* celery.schedules.crontab(...) raises for a field it cannot parse or that is
\* out of range
crontab_field_ok(f, i) ==
    CASE cron_field_kind(f) = "any" -> TRUE
      [] cron_field_kind(f) = "num" ->
            /\ cron_field_num(f) >= croniter_low(i)
            /\ cron_field_num(f) <= (IF i = 5 THEN 6 ELSE croniter_high(i))
      [] cron_field_kind(f) = "step" -> cron_field_num(f) >= 1
      [] OTHER -> FALSE

crontab(minute, hour, day_of_month, month_of_year, day_of_week) ==
    [minute |-> minute, hour |-> hour, day_of_month |-> day_of_month,
     month_of_year |-> month_of_year, day_of_week |-> day_of_week]

crontab_raises(c) ==
    \/ ~crontab_field_ok(c.minute, 1)
    \/ ~crontab_field_ok(c.hour, 2)
    \/ ~crontab_field_ok(c.day_of_month, 3)
    \/ ~crontab_field_ok(c.month_of_year, 4)
    \/ ~crontab_field_ok(c.day_of_week, 5)

\* beat runs an entry in every minute that its crontab selects
crontab_is_due(c, t) ==
    /\ cron_field_matches(c.minute, 1, t % 60)
    /\ cron_field_matches(c.hour, 2, (t \div 60) % 24)
    /\ cron_field_matches(c.day_of_month, 3, (t \div 1440) + 1)
    /\ cron_field_matches(c.month_of_year, 4, 1)
    /\ cron_field_matches(c.day_of_week, 5, ((t \div 1440) + 1) % 7)

\* the crontab that register_celery_task builds from the first five parts
register_crontab(cron_expression) ==
    LET cron_parts == split(cron_expression)
        day_of_week == replace(replace(cron_parts[5], "?", "*"), "7", "0")
        dom == replace(cron_parts[3], "?", "*")
        day_of_month == IF dom = <<"0">> THEN <<"1">> ELSE dom
        month_of_year == IF cron_parts[4] = <<"0">> THEN <<"1">> ELSE cron_parts[4]
    IN  crontab(cron_parts[1], cron_parts[2], day_of_month, month_of_year, day_of_week)

\* does register_celery_task install an entry (the import or a call on
\* celery_app.conf raising, crontab raising: the exception is logged; fewer
\* than five parts: nothing is done)
register_installs(cron_expression) ==
    /\ celery_available
    /\ Len(split(cron_expression)) >= 5
    /\ ~crontab_raises(register_crontab(cron_expression))

register_celery_task(schedule, task_id, cron_expression) ==
    IF register_installs(cron_expression)
    THEN [k \in DOMAIN schedule \cup {TaskKey(task_id)} |->
            IF k = TaskKey(task_id)
            THEN [task |-> "wecom_execute_task",
                  schedule |-> register_crontab(cron_expression),
                  args |-> <<task_id>>]
            ELSE schedule[k]]
    ELSE schedule

\* a deregistration that drops the triggers of all records
delete_celery_task_all(schedule, task_id) ==
    [k \in DOMAIN schedule \cap {PollerKey} |-> schedule[k]]

delete_celery_task(schedule, task_id) ==
    IF celery_available /\ TaskKey(task_id) \in DOMAIN schedule
    THEN [k \in DOMAIN schedule \ {TaskKey(task_id)} |-> schedule[k]]
    ELSE schedule

update_celery_task(schedule, task_id, cron_expression) ==
    register_celery_task(delete_celery_task(schedule, task_id), task_id, cron_expression)

\* a registration of the poller that installs nothing
register_check_due_tasks_nothing(schedule) == schedule

\* register_check_due_tasks, and the beat_schedule of init_celery
register_check_due_tasks(schedule) ==
    IF celery_available
    THEN [k \in DOMAIN schedule \cup {PollerKey} |->
            IF k = PollerKey
            THEN [task |-> "wecom_check_due_tasks",
                  schedule |-> crontab(<<"*">>, <<"*">>, <<"*">>, <<"*">>, <<"*">>),
                  args |-> <<>>]
            ELSE schedule[k]]
    ELSE schedule

\* beat starts counting for an entry when the entry is installed
installed_now(last_run, keys, t) == [k \in Keys |-> IF k \in keys THEN t ELSE last_run[k]]

---------------------------------------------------------------------------
(* The inputs of the model. *)

S_every_minute == <<"*", " ", "*", " ", "*", " ", "*", " ", "*">>
S_every_second_minute == <<"*", "/", "2", " ", "*", " ", "*", " ", "*", " ", "*">>
S_daily_9 == <<"MEI", "TIAN", "9", "DIAN">>
S_weekly == <<"MEI", "ZHOU", "YI", "8", ":", "3", "0", "DIAN">>
S_unparsable == <<"a", "b", "c">>

S_daily_0 == <<"MEI", "TIAN", "0", "DIAN">>

ScheduleInputs ==
    {S_every_minute, S_every_second_minute, S_daily_9, S_daily_0, S_weekly, S_unparsable}

\* more schedule_time strings, for the functions of schedule_utils alone:
\* cron strings of five and six fields, valid or not, some with a 0 where a
\* day or a month is expected
C_noon == <<"0", " ", "1", "2", " ", "*", " ", "*", " ", "*">>
C_day_0 == <<"0", " ", "1", "2", " ", "0", " ", "*", " ", "*">>
C_month_0 == <<"0", " ", "1", "2", " ", "1", " ", "0", " ", "*">>
C_day_month_0 == <<"0", " ", "0", " ", "0", " ", "0", " ", "*">>
C_minute_99 == <<"9", "9", " ", "*", " ", "*", " ", "*", " ", "*">>
C_seconds == <<"0", " ", "3", "0", " ", "8", " ", "*", " ", "*", " ", "*">>
C_seconds_day_0 == <<"0", " ", "0", " ", "1", "2", " ", "0", " ", "*", " ", "*">>

\* phrases of the three kinds, with and without minutes, with the ASCII and
\* the full-width colon, with and without DIAN
S_daily_930 == <<"MEI", "TIAN", "9", ":", "3", "0", "DIAN">>
S_daily_fw == <<"MEI", "TIAN", "9", "FWCOLON", "3", "0", "DIAN">>
S_daily_no_dian == <<"MEI", "TIAN", "9", ":", "3", "0">>
S_weekly_no_dian == <<"MEI", "ZHOU", "YI", "8", ":", "3", "0">>
S_weekly_xingqi == <<"MEI", "XING", "QI", "RI", "9", "DIAN">>
S_weekly_7 == <<"MEI", "ZHOU", "7", " ", "9", "DIAN">>
S_monthly == <<"MEI", "YUE", "1", "HAO", "0", "DIAN">>
S_monthly_15 == <<"MEI", "YUE", "1", "5", "HAO", "9", ":", "3", "0", "DIAN">>
S_monthly_no_time == <<"MEI", "YUE", "1", "HAO">>

\* text that is neither: no keyword, no text at all, a time that is no
\* number, a time with two colons
S_empty == <<>>
S_daily_x == <<"MEI", "TIAN", "x", "DIAN">>
S_monthly_x == <<"MEI", "YUE", "x", "HAO">>
S_daily_colons == <<"MEI", "TIAN", "9", ":", "3", "0", ":", "1", "5", "DIAN">>
S_weekly_colons == <<"MEI", "ZHOU", "YI", "8", ":", "3", "0", ":", "1", "5", "DIAN">>
S_monthly_colons == <<"MEI", "YUE", "1", "HAO", "9", ":", "3", "0", ":", "1", "5", "DIAN">>

CronInputs ==
    {S_every_minute, S_every_second_minute, C_noon, C_day_0, C_month_0, C_day_month_0,
     C_minute_99, C_seconds, C_seconds_day_0}

PhraseInputs ==
    {S_daily_9, S_daily_0, S_daily_930, S_daily_fw, S_daily_no_dian, S_weekly,
     S_weekly_no_dian, S_weekly_xingqi, S_weekly_7, S_monthly, S_monthly_15,
     S_monthly_no_time}

OtherInputs ==
    {S_unparsable, S_empty, S_daily_x, S_monthly_x, S_daily_colons, S_weekly_colons,
     S_monthly_colons}

ParseInputs == CronInputs \cup PhraseInputs \cup OtherInputs

\* what datetime.now() gives when calculate_next_run_time is called: midnight
\* of January 1st, 00:59, 08:59, 09:00, 23:59, and 23:59 of January 8th
RefInstants == {0, 59, 539, 540, 1439, 11519}
MessageTypes == {"text", "file"}

\* update_data of update_task: one key per call
UpdateInputs ==
    {[status |-> 0], [status |-> 1], [file_path |-> "/f"]}
        \cup {[schedule_time |-> st] : st \in ScheduleInputs}

\* what the destination answers to a request: errcode 0, another errcode with
\* its errmsg, or nothing (the request fails at transport level and httpx
\* raises)
SendOutcomes == {"errcode0", "errcodeN", "transport"}

Request(task_id, msgtype, payload, by, inv, occ, outcome) ==
    [task_id |-> task_id, msgtype |-> msgtype, payload |-> payload, by |-> by,
     inv |-> inv, occ |-> occ, outcome |-> outcome]

---------------------------------------------------------------------------
(* The schedule functions over the values that the inputs above can put    *)
(* into a row, evaluated once: parsed_schedule[st] is                      *)
(* parse_schedule_time(st), next_run[c][t] is                              *)
(* calculate_next_run_time(c, t).                                          *)

Instants == 0..MaxTime

parsed_schedule == [st \in ScheduleInputs |-> parse_schedule_time(st)]

CronExpressions ==
    {parsed_schedule[st].value : st \in {s \in ScheduleInputs :
                                            parsed_schedule[s].kind = "return"}}

next_run == [c \in CronExpressions |-> [t \in Instants |-> calculate_next_run_time(c, t)]]

---------------------------------------------------------------------------
(* The service layer: WecomTaskService and initialize_wecom_tasks.         *)

Called(op, task_id, outcome) == [op |-> op, task_id |-> task_id, outcome |-> outcome]

\* handlers of the registry functions that let what was raised leave them: the
\* service call around them ends in its own handler, with ServerError
celery_task_reraise == "ServerError"

\* `except ImportError` and `except Exception` of register_celery_task,
\* update_celery_task, delete_celery_task and register_check_due_tasks: what
\* was raised is logged and the function returns
celery_task_except == "ok"

\* how a call of a registry function ends for its caller
registry_outcome == IF celery_available THEN "ok" ELSE celery_task_except

create_task(name, webhook_url, message_type, message_content, schedule_time) ==
    LET parsed == parsed_schedule[schedule_time]
        cron_expression == parsed.value
        next_run_time == next_run[cron_expression][now]
        task_id == next_id
        schedule == register_celery_task(beat_schedule, task_id, cron_expression)
    IN  /\ next_id <= MaxId
        /\ calls < MaxCalls /\ calls' = calls + 1
        /\ IF parsed.kind = "raise"
           THEN /\ svc' = Called("create_task", 0, "ServerError")
                /\ UNCHANGED <<db, next_id, beat_schedule, beat_last_run>>
           ELSE /\ db' = [id \in DOMAIN db \cup {task_id} |->
                            IF id = task_id
                            THEN WecomTask(name, webhook_url, message_type,
                                           message_content, cron_expression,
                                           next_run_time, 1, NoneStr)
                            ELSE db[id]]
                /\ next_id' = next_id + 1
                /\ beat_schedule' = schedule
                /\ beat_last_run' =
                      installed_now(beat_last_run,
                                    {TaskKey(task_id)} \cap DOMAIN schedule, now)
                /\ svc' = Called("create_task", task_id, registry_outcome)
        /\ UNCHANGED <<now, queue, poller, trig, wire, impl, celery_available, util>>

has_schedule_time(update_data) ==
    "schedule_time" \in DOMAIN update_data /\ update_data["schedule_time"] # <<>>

\* update_data after the schedule handling of update_task
with_schedule(update_data, cron_expression, next_run_time) ==
    [k \in (DOMAIN update_data \ {"schedule_time"})
            \cup {"cron_expression", "next_run_time"} |->
        CASE k = "cron_expression" -> cron_expression
          [] k = "next_run_time" -> next_run_time
          [] OTHER -> update_data[k]]

without_schedule(update_data) ==
    [k \in DOMAIN update_data \ {"schedule_time"} |-> update_data[k]]

update_task(task_id, update_data) ==
    LET parsed == parsed_schedule[update_data["schedule_time"]]
        cron_expression == parsed.value
        next_run_time == next_run[cron_expression][now]
        schedule == update_celery_task(beat_schedule, task_id, cron_expression)
    IN  /\ calls < MaxCalls /\ calls' = calls + 1
        /\ IF task_id \notin DOMAIN db
           THEN /\ svc' = Called("update_task", task_id, "NotFoundError")
                /\ UNCHANGED <<db, beat_schedule, beat_last_run>>
           ELSE IF ~has_schedule_time(update_data)
           THEN /\ db' = [db EXCEPT ![task_id] =
                            crud_update_task(@, without_schedule(update_data))]
                /\ svc' = Called("update_task", task_id, "ok")
                /\ UNCHANGED <<beat_schedule, beat_last_run>>
           ELSE IF parsed.kind = "raise"
           THEN /\ svc' = Called("update_task", task_id, "ServerError")
                /\ UNCHANGED <<db, beat_schedule, beat_last_run>>
           ELSE /\ beat_schedule' = schedule
                /\ beat_last_run' =
                      installed_now(beat_last_run,
                                    {TaskKey(task_id)} \cap DOMAIN schedule, now)
                /\ db' = IF registry_outcome = "ok"
                         THEN [db EXCEPT ![task_id] =
                                 crud_update_task(@, with_schedule(update_data,
                                                     cron_expression, next_run_time))]
                         ELSE db
                /\ svc' = Called("update_task", task_id, registry_outcome)
        /\ UNCHANGED <<now, next_id, queue, poller, trig, wire, impl, celery_available, util>>

\* update_task when wecom_task_dao.update_task raises or returns None (the
\* commit fails, the row is gone): the schedule handling, update_celery_task
\* included, has run, the session is rolled back and ServerError is raised
update_task_store_fails(task_id, update_data) ==
    LET parsed == parsed_schedule[update_data["schedule_time"]]
        schedule == update_celery_task(beat_schedule, task_id, parsed.value)
    IN  /\ calls < MaxCalls /\ calls' = calls + 1
        /\ task_id \in DOMAIN db
        /\ has_schedule_time(update_data) => parsed.kind = "return"
        /\ IF has_schedule_time(update_data)
           THEN /\ beat_schedule' = schedule
                /\ beat_last_run' =
                      installed_now(beat_last_run,
                                    {TaskKey(task_id)} \cap DOMAIN schedule, now)
           ELSE UNCHANGED <<beat_schedule, beat_last_run>>
        /\ svc' = Called("update_task", task_id, "ServerError")
        /\ UNCHANGED <<now, db, next_id, queue, poller, trig, wire, impl, celery_available, util>>

delete_task(task_id) ==
    /\ calls < MaxCalls /\ calls' = calls + 1
    /\ IF task_id \notin DOMAIN db
       THEN /\ svc' = Called("delete_task", task_id, "NotFoundError")
            /\ UNCHANGED <<db, beat_schedule>>
       ELSE /\ db' = [id \in DOMAIN db \ {task_id} |-> db[id]]
            /\ beat_schedule' = delete_celery_task(beat_schedule, task_id)
            /\ svc' = Called("delete_task", task_id, registry_outcome)
    /\ UNCHANGED <<now, next_id, beat_last_run, queue, poller, trig, wire, impl, celery_available, util>>

\* WecomTaskService.register_celery_task, update_celery_task and
\* delete_celery_task and register_check_due_tasks called on their own.  Each
\* ends in handlers that log what was raised, so each returns None
registry_call(op, task_id, schedule, installed) ==
    /\ beat_schedule' = schedule
    /\ beat_last_run' = installed_now(beat_last_run, installed \cap DOMAIN schedule, now)
    /\ svc' = Called(op, task_id, registry_outcome)

register_celery_task_call(task_id, cron_expression) ==
    /\ registry_call("register_celery_task", task_id,
                     register_celery_task(beat_schedule, task_id, cron_expression),
                     IF register_installs(cron_expression) THEN {TaskKey(task_id)} ELSE {})
    /\ UNCHANGED <<now, db, next_id, queue, poller, trig, wire, calls, impl, celery_available, util>>

update_celery_task_call(task_id, cron_expression) ==
    /\ registry_call("update_celery_task", task_id,
                     update_celery_task(beat_schedule, task_id, cron_expression),
                     {TaskKey(task_id)})
    /\ UNCHANGED <<now, db, next_id, queue, poller, trig, wire, calls, impl, celery_available, util>>

delete_celery_task_call(task_id) ==
    /\ registry_call("delete_celery_task", task_id,
                     delete_celery_task(beat_schedule, task_id), {})
    /\ UNCHANGED <<now, db, next_id, queue, poller, trig, wire, calls, impl, celery_available, util>>

\* register_check_due_tasks also sends one wecom_check_due_tasks request
register_check_due_tasks_call ==
    /\ registry_call("register_check_due_tasks", 0,
                     register_check_due_tasks(beat_schedule),
                     IF PollerKey \in DOMAIN beat_schedule THEN {} ELSE {PollerKey})
    /\ queue' = IF celery_available THEN 1 ELSE queue
    /\ UNCHANGED <<now, db, next_id, poller, trig, wire, calls, impl, celery_available, util>>

\* delete_task in its two steps, for the states between them: lines 120-126,
\* the row is looked up, deleted and the deletion committed ...
delete_task_commit(task_id) ==
    /\ calls < MaxCalls /\ calls' = calls + 1
    /\ IF task_id \notin DOMAIN db
       THEN /\ svc' = Called("delete_task", task_id, "NotFoundError")
            /\ UNCHANGED db
       ELSE /\ db' = [id \in DOMAIN db \ {task_id} |-> db[id]]
            /\ svc' = Called("delete_task", task_id, "committed")
    /\ UNCHANGED <<now, next_id, beat_schedule, beat_last_run, queue, poller, trig, wire, impl,
                   celery_available, util>>

\* a delete_task is between its commit and its delete_celery_task
Deleting == svc.op = "delete_task" /\ svc.outcome = "committed"

\* ... lines 128-133: delete_celery_task(task_id), and the answer
delete_task_deregister ==
    /\ Deleting
    /\ beat_schedule' = delete_celery_task(beat_schedule, svc.task_id)
    /\ svc' = Called("delete_task", svc.task_id, registry_outcome)
    /\ UNCHANGED <<now, db, next_id, beat_last_run, queue, poller, trig, wire, calls, impl,
                   celery_available, util>>

\* the loop of initialize_wecom_tasks over the active rows: register each,
\* then store its recomputed next run when there is one
RECURSIVE initialize_registry(_, _, _)
initialize_registry(schedule, rows, tasks) ==
    IF tasks = <<>> THEN schedule
    ELSE initialize_registry(
            register_celery_task(schedule, Head(tasks), rows[Head(tasks)].cron_expression),
            rows, Tail(tasks))

initialize_rows(rows, t) ==
    [id \in DOMAIN rows |->
        IF rows[id].status = 1
              /\ next_run[rows[id].cron_expression][t] # None
        THEN [rows[id] EXCEPT
                !.next_run_time = next_run[rows[id].cron_expression][t]]
        ELSE rows[id]]

\* the beat_schedule of a fresh process
empty_schedule == [k \in {} |-> 0]

\* a start of the application: the plugin is loaded into a fresh process and
\* initialize_wecom_tasks runs; register_check_due_tasks also sends one
\* wecom_check_due_tasks request
initialize_wecom_tasks ==
    LET schedule == register_check_due_tasks(
                       initialize_registry(empty_schedule, db, get_all_active_tasks(db)))
    IN  /\ calls < MaxCalls /\ calls' = calls + 1
        /\ beat_schedule' = schedule
        /\ beat_last_run' = installed_now(beat_last_run, DOMAIN schedule, now)
        /\ db' = initialize_rows(db, now)
        /\ queue' = IF celery_available THEN 1 ELSE queue
        /\ svc' = Called("initialize_wecom_tasks", 0, registry_outcome)
        /\ UNCHANGED <<now, next_id, poller, trig, wire, impl, celery_available, util>>

---------------------------------------------------------------------------
(* The API: the handlers of api/v1/sys/wecom.py.  A request body is a      *)
(* function from the keys it has to their values; FastAPI builds the       *)
(* schema object from it before the handler runs.                          *)

MessageKinds == {"text", "markdown", "image", "file"}

\* the fields of WecomTaskCreate (WecomTaskBase and schedule_time)
WecomTaskCreate_fields ==
    {"name", "webhook_url", "message_type", "message_content", "schedule_time"}

\* the fields of WecomTaskUpdate
WecomTaskUpdate_fields ==
    {"name", "webhook_url", "message_type", "message_content", "schedule_time", "status"}

\* the parameters of WecomTaskService.create_task
create_task_params ==
    {"name", "webhook_url", "message_type", "message_content", "schedule_time"}

\* the attributes of wecom_task_service that the handlers call
wecom_task_service_attrs ==
    {"create_task", "update_task", "delete_task", "get_task", "get_all_tasks",
     "test_send_message", "execute_task", "register_celery_task", "update_celery_task",
     "delete_celery_task"}

\* the schema object of a body: the declared fields; pydantic drops the keys
\* that the schema does not declare
schema_object(body, fields) == [k \in DOMAIN body \cap fields |-> body[k]]

\* `not value` for an attribute of a schema object
falsy(value) == value = "" \/ value = NoneStr

\* how create_wecom_task ends before or instead of calling create_task:
\* "call" when it gets to the call and the call binds its arguments
create_wecom_task_outcome(body, task) ==
    IF "message_content" \notin DOMAIN body THEN "RequestValidationError"
    ELSE IF task.message_type \in {"image", "file"} /\ "file_path" \notin DOMAIN task
    THEN "AttributeError"
    ELSE IF task.message_type \in {"image", "file"} /\ falsy(task.file_path)
    THEN "422 File path is required"
    ELSE IF task.message_type \in {"text", "markdown"} /\ falsy(task.message_content)
    THEN "422 Message content is required"
    ELSE IF "file_path" \notin DOMAIN task THEN "AttributeError"
    ELSE IF "file_path" \notin create_task_params THEN "TypeError"
    ELSE "call"

create_wecom_task(body) ==
    LET task == schema_object(body, WecomTaskCreate_fields)
        outcome == create_wecom_task_outcome(body, task)
    IN  IF outcome = "call"
        THEN create_task(task.name, task.webhook_url, task.message_type,
                         task.message_content, task.schedule_time)
        ELSE /\ calls < MaxCalls /\ calls' = calls + 1
             /\ svc' = Called("create_wecom_task", 0, outcome)
             /\ UNCHANGED <<now, db, next_id, beat_schedule, beat_last_run, queue, poller,
                            trig, wire, impl, celery_available, util>>

\* update_wecom_task: update_data = task.model_dump(exclude_unset=True); when
\* it has message_type, file_path or message_content the handler asks
\* wecom_task_service.get_task_model for the stored record
update_wecom_task(task_id, body) ==
    LET update_data == schema_object(body, WecomTaskUpdate_fields)
        validates == DOMAIN update_data
                        \cap {"message_type", "file_path", "message_content"} # {}
    IN  IF validates /\ "get_task_model" \notin wecom_task_service_attrs
        THEN /\ calls < MaxCalls /\ calls' = calls + 1
             /\ svc' = Called("update_wecom_task", task_id, "AttributeError")
             /\ UNCHANGED <<now, db, next_id, beat_schedule, beat_last_run, queue, poller,
                            trig, wire, impl, celery_available, util>>
        ELSE update_task(task_id, update_data)

\* request bodies
CreateBodies ==
    {[name |-> "n", webhook_url |-> "url", message_type |-> message_type,
      message_content |-> message_content, schedule_time |-> S_every_minute] :
        message_type \in MessageKinds, message_content \in {"hello", ""}}
    \cup
    {[name |-> "n", webhook_url |-> "url", message_type |-> message_type,
      message_content |-> "hello", schedule_time |-> S_every_minute,
      file_path |-> "/f"] : message_type \in MessageKinds}
    \cup
    {[name |-> "n", webhook_url |-> "url", message_type |-> "image",
      schedule_time |-> S_every_minute]}

UpdateBodies ==
    {[status |-> 0], [status |-> 1], [schedule_time |-> S_daily_9], [file_path |-> "/f"],
     [message_type |-> "image"], [message_type |-> "image", file_path |-> "/f"],
     [message_type |-> "text"], [message_content |-> "bye"]}

---------------------------------------------------------------------------
(* The due-task poller.  "sync" is check_due_tasks of service/tasks.py,    *)
(* "async" is check_due_tasks / _check_due_tasks of tasks.py; both are     *)
(* registered under the task name wecom_check_due_tasks.                   *)
(*                                                                         *)
(* A worker holds the rows it selected as objects of its session (objs).   *)
(* The sync session expires its objects at every commit and rollback; an   *)
(* expired object is read again from the store at its next attribute       *)
(* access, which raises ObjectDeletedError when the row is gone.  The      *)
(* async session (expire_on_commit = False) keeps what it loaded.          *)
(*                                                                         *)
(* Failures of the store are: unreachable when the cycle starts, and a     *)
(* commit that fails while the store answers again right after.            *)

Impls == {"sync", "async"}

NoReturn == [kind |-> "none", success |-> FALSE, message |-> "", executed |-> 0]

\* return {"success": True, "message": ...} at the end of the loop
check_due_tasks_return(n) ==
    [kind |-> "return", success |-> TRUE, message |-> "check done", executed |-> n]

\* an outer handler that lets the exception leave the task
check_due_tasks_reraise ==
    [kind |-> "raise", success |-> FALSE, message |-> "", executed |-> 0]

\* the outer `except Exception` of check_due_tasks
check_due_tasks_except ==
    [kind |-> "return", success |-> FALSE, message |-> "check failed", executed |-> 0]

IdlePoller ==
    [pc |-> "idle", inv |-> 0, current_time |-> 0,
     due_tasks |-> <<>>, idx |-> 0, objs |-> <<>>, expired |-> {},
     result |-> "none", ret |-> NoReturn, skipped |-> {}, log |-> <<>>]

\* what a worker notes about a due record during one invocation
LogEntry(old) ==
    [sent |-> 0, outcome |-> "none", calc |-> "none", persist |-> "none",
     old |-> old, new |-> None]

\* the message that the pollers build from a row: text and markdown as such,
\* every other kind as a text message of message_content
poller_message(row) ==
    IF row.message_type = "markdown"
    THEN [msgtype |-> "markdown", content |-> row.message_content]
    ELSE [msgtype |-> "text", content |-> row.message_content]

\* the invocation returns r: the session is closed, its objects are dropped
returned(st, r) ==
    [st EXCEPT !.pc = "idle", !.result = "none", !.ret = r, !.objs = <<>>,
               !.expired = {}, !.idx = 0]

\* the loop goes on with the next due task, or the invocation returns
next_task(st) ==
    IF st.idx < Len(st.due_tasks)
    THEN [st EXCEPT !.pc = "dispatch", !.idx = @ + 1, !.result = "none"]
    ELSE returned(st, check_due_tasks_return(Len(st.due_tasks)))

\* the per-record `except Exception` of the sync poller: its log line reads
\* task.name; when the object is expired and its row is gone this raises
\* again, now outside the inner try, and the outer handler ends the invocation
sync_record_except(st, row_present) ==
    IF row_present THEN next_task(st)
    ELSE returned(st, check_due_tasks_except)

\* the per-record `except Exception` of the async poller
async_record_except(st) == next_task(st)

\* the invocations of the poller so far
Invocations == poller["w1"].inv + poller["w2"].inv

\* a worker takes a wecom_check_due_tasks request: the one beat sends in every
\* minute, or one that send_task queued
PollStart(p) ==
    LET st == poller[p]
        by_beat == PollerKey \in DOMAIN beat_schedule /\ beat_last_run[PollerKey] < now
        due == get_due_tasks(db, now)
        begun == [st EXCEPT !.inv = @ + 1, !.current_time = now,
                            !.due_tasks = due, !.idx = 0,
                            !.objs = [id \in Range(due) |-> db[id]],
                            !.expired = {}, !.result = "none", !.ret = NoReturn,
                            !.skipped = {id \in DOMAIN db :
                                            /\ db[id].status # 1
                                            /\ db[id].next_run_time # None
                                            /\ db[id].next_run_time <= now},
                            !.log = [id \in Range(due) |->
                                        LogEntry(db[id].next_run_time)]]
    IN  /\ st.pc = "idle"
        /\ p = "w1" \/ poller["w1"].pc # "idle"
        /\ Invocations < MaxInv
        /\ by_beat \/ queue > 0
        /\ IF by_beat
           THEN /\ beat_last_run' = [beat_last_run EXCEPT ![PollerKey] = now]
                /\ UNCHANGED queue
           ELSE /\ queue' = queue - 1
                /\ UNCHANGED beat_last_run
        /\ \E store_ok \in BOOLEAN :
              poller' = [poller EXCEPT ![p] =
                  IF store_ok THEN next_task(begun)
                  ELSE [begun EXCEPT !.due_tasks = <<>>, !.objs = <<>>, !.log = <<>>,
                                     !.skipped = {}, !.ret = check_due_tasks_except]]
        /\ UNCHANGED <<now, db, next_id, beat_schedule, trig, wire, svc, calls, impl, celery_available, util>>

\* sync, lines 51-68: read the task (refreshing an expired object), send
SyncDispatch(p) ==
    LET st == poller[p]
        id == st.due_tasks[st.idx]
        gone == id \in st.expired /\ id \notin DOMAIN db
        row == IF id \in st.expired THEN db[id] ELSE st.objs[id]
        loaded == [st EXCEPT !.objs[id] = row, !.expired = @ \ {id}]
    IN  /\ st.pc = "dispatch" /\ impl = "sync"
        /\ IF gone
           THEN /\ poller' = [poller EXCEPT ![p] =
                      sync_record_except([st EXCEPT !.log[id].outcome = "deleted"], FALSE)]
                /\ UNCHANGED wire
           ELSE \E outcome \in SendOutcomes :
                /\ Len(wire) < MaxWire
                /\ wire' = Append(wire,
                      Request(id, poller_message(row).msgtype, poller_message(row).content,
                              p, st.inv, row.next_run_time, outcome))
                /\ poller' = [poller EXCEPT ![p] =
                      IF outcome = "transport"
                      THEN sync_record_except(
                              [loaded EXCEPT !.log[id].sent = @ + 1,
                                             !.log[id].outcome = "raised"], TRUE)
                      ELSE [loaded EXCEPT !.pc = "rearm", !.result = outcome,
                                          !.log[id].sent = @ + 1,
                                          !.log[id].outcome = outcome]]
        /\ UNCHANGED <<now, db, next_id, beat_schedule, beat_last_run, queue, trig, svc, calls, impl, celery_available, util>>

\* sync, lines 70-78: compute the next run and commit it.  The commit writes
\* the one changed column by primary key; it raises StaleDataError when the
\* row is gone
SyncRearm(p) ==
    LET st == poller[p]
        id == st.due_tasks[st.idx]
        next_run_time == next_run[st.objs[id].cron_expression][now]
        others == Range(st.due_tasks) \ {id}
    IN  /\ st.pc = "rearm" /\ impl = "sync"
        /\ IF next_run_time = None
           THEN /\ poller' = [poller EXCEPT ![p] =
                      next_task([st EXCEPT !.log[id].calc = "novalue"])]
                /\ UNCHANGED db
           ELSE IF id \notin DOMAIN db
           THEN /\ poller' = [poller EXCEPT ![p] =
                      sync_record_except(
                          [st EXCEPT !.log[id].calc = "value", !.log[id].persist = "stale",
                                     !.expired = Range(st.due_tasks)], FALSE)]
                /\ UNCHANGED db
           ELSE \E commit_ok \in BOOLEAN :
                IF commit_ok
                THEN /\ db' = [db EXCEPT ![id].next_run_time = next_run_time]
                     /\ poller' = [poller EXCEPT ![p] =
                           next_task([st EXCEPT !.log[id].calc = "value",
                                                !.log[id].persist = "ok",
                                                !.log[id].new = next_run_time,
                                                !.objs[id] = db'[id],
                                                !.expired = others])]
                ELSE /\ poller' = [poller EXCEPT ![p] =
                           sync_record_except(
                               [st EXCEPT !.log[id].calc = "value",
                                          !.log[id].persist = "error",
                                          !.objs[id] = db[id],
                                          !.expired = others], TRUE)]
                     /\ UNCHANGED db
        /\ UNCHANGED <<now, next_id, beat_schedule, beat_last_run, queue, trig, wire, svc, calls, impl, celery_available, util>>

\* async, execute_task(task.id, db): looks the row up again; every exception
\* (the row is gone, the request fails) becomes a returned failure
AsyncDispatch(p) ==
    LET st == poller[p]
        id == st.due_tasks[st.idx]
        row == st.objs[id]
    IN  /\ st.pc = "dispatch" /\ impl = "async"
        /\ IF id \notin DOMAIN db
           THEN /\ poller' = [poller EXCEPT ![p] =
                      [st EXCEPT !.pc = "rearm", !.result = "failed",
                                 !.log[id].outcome = "failed"]]
                /\ UNCHANGED wire
           ELSE \E outcome \in SendOutcomes :
                /\ Len(wire) < MaxWire
                /\ wire' = Append(wire,
                      Request(id, poller_message(row).msgtype, poller_message(row).content,
                              p, st.inv, row.next_run_time, outcome))
                /\ poller' = [poller EXCEPT ![p] =
                      [st EXCEPT !.pc = "rearm",
                                 !.result = IF outcome = "transport" THEN "failed"
                                            ELSE outcome,
                                 !.log[id].sent = @ + 1,
                                 !.log[id].outcome = IF outcome = "transport" THEN "failed"
                                                     ELSE outcome]]
        /\ UNCHANGED <<now, db, next_id, beat_schedule, beat_last_run, queue, trig, svc, calls, impl, celery_available, util>>

\* async, lines 56-60: compute the next run and update_next_run_time
AsyncRearm(p) ==
    LET st == poller[p]
        id == st.due_tasks[st.idx]
        next_run_time == next_run[st.objs[id].cron_expression][now]
    IN  /\ st.pc = "rearm" /\ impl = "async"
        /\ IF next_run_time = None
           THEN /\ poller' = [poller EXCEPT ![p] =
                      next_task([st EXCEPT !.log[id].calc = "novalue"])]
                /\ UNCHANGED db
           ELSE \E commit_ok \in BOOLEAN :
                IF commit_ok
                THEN /\ db' = update_next_run_time(db, id, next_run_time)
                     /\ poller' = [poller EXCEPT ![p] =
                           next_task([st EXCEPT
                               !.log[id].calc = "value",
                               !.log[id].persist = IF id \in DOMAIN db THEN "ok"
                                                   ELSE "norow",
                               !.log[id].new = IF id \in DOMAIN db THEN next_run_time
                                               ELSE None])]
                ELSE /\ poller' = [poller EXCEPT ![p] =
                           async_record_except([st EXCEPT !.log[id].calc = "value",
                                                          !.log[id].persist = "error"])]
                     /\ UNCHANGED db
        /\ UNCHANGED <<now, next_id, beat_schedule, beat_last_run, queue, trig, wire, svc, calls, impl, celery_available, util>>

PollStep(p) == SyncDispatch(p) \/ SyncRearm(p) \/ AsyncDispatch(p) \/ AsyncRearm(p)

---------------------------------------------------------------------------
(* The per-record trigger: beat sends wecom_execute_task(task_id) when the *)
(* crontab of the entry wecom_task_<id> is due.  "sync" is                 *)
(* execute_wecom_task of service/tasks.py, "async" is execute_wecom_task / *)
(* execute_task of tasks.py.                                               *)

Result(success, message) == [success |-> success, message |-> message]

NoResult == Result(FALSE, "none")

\* upload: what the upload endpoint answered to upload_media;
\* called: the calls made on the WechatWorkWebhook object; calcs: the calls of
\* calculate_next_run_time; commits: the calls of session.commit that returned;
\* data: the "data" entry of the returned dict
IdleTrigger ==
    [pc |-> "idle", run |-> 0, task_id |-> 0, occ |-> None, obj |-> <<>>,
     ret |-> NoResult, sent |-> "none", old |-> None,
     called |-> <<>>, calcs |-> 0, commits |-> 0, data |-> "none", upload |-> "none"]

\* one call webhook.<method>(arg) and what it raised
WebhookCall(method, arg, raised) == [method |-> method, arg |-> arg, raised |-> raised]

\* the kinds execute_wecom_task of service/tasks.py sends from a file
FileKinds == {"image", "file"}

\* the messages of the early returns of the image and file branches
requires_file_path(message_type) ==
    IF message_type = "image" THEN "Image message type requires a file_path."
    ELSE "File message type requires a file_path."

file_not_found(message_type) ==
    IF message_type = "image" THEN "Image file not found" ELSE "File not found"

\* f"Failed to send image: {str(e)}", f"Failed to send file: {str(e)}"
failed_to_send(message_type, e) ==
    (IF message_type = "image" THEN "Failed to send image" ELSE "Failed to send file")
        \o ": " \o e

\* a variant of webhook.file that goes on whatever the upload answered
upload_media_raises_never(upload) == "none"

\* self.upload_media(file_path)['media_id'] of webhook.file: str(e) of what it
\* raises.  The post raises when the request fails at transport level, the
\* subscript raises KeyError when the answer carries no media_id
upload_media_raises(upload) ==
    CASE upload = "errcode0" -> "none"
      [] upload = "errcodeN" -> "'media_id'"
      [] OTHER -> "transport"

\* the outer `except Exception` of execute_wecom_task and of execute_task
execute_task_except == Result(FALSE, "exception")

\* result.get("errcode") == 0 decides what is reported
send_result(outcome) ==
    IF outcome = "errcode0" THEN Result(TRUE, "sent") ELSE Result(FALSE, "errmsg")

\* a variant that never finds the path missing
no_file_path_never(row) == FALSE

\* a variant that sends every kind as text
trigger_message_text(row) == [msgtype |-> "text", content |-> row.message_content]

\* `if not task.file_path`
no_file_path(row) == row.file_path = NoneStr \/ row.file_path = ""

\* the message of a row whose kind needs no file
trigger_message(row) == poller_message(row)

TrigFire(task_id) ==
    LET key == TaskKey(task_id)
    IN  /\ trig.pc = "idle"
        /\ trig.run < MaxRuns
        /\ key \in DOMAIN beat_schedule
        /\ beat_last_run[key] < now
        /\ crontab_is_due(beat_schedule[key].schedule, now)
        /\ beat_last_run' = [beat_last_run EXCEPT ![key] = now]
        /\ trig' = [IdleTrigger EXCEPT !.pc = "read", !.run = trig.run + 1,
                                       !.task_id = beat_schedule[key].args[1],
                                       !.occ = now]
        /\ UNCHANGED <<now, db, next_id, beat_schedule, queue, poller, wire, svc, calls, impl, celery_available, util>>

\* the task is read by id; the sync variant refuses a task whose status is not 1
TrigRead ==
    LET id == trig.task_id
        returns(r) == [trig EXCEPT !.pc = "idle", !.ret = r, !.obj = <<>>]
    IN  /\ trig.pc = "read"
        /\ trig' = IF id \notin DOMAIN db
                   THEN returns(IF impl = "sync" THEN Result(FALSE, "notfound")
                                ELSE execute_task_except)
                   ELSE IF impl = "sync" /\ db[id].status # 1
                   THEN returns(Result(FALSE, "skipped"))
                   ELSE [trig EXCEPT !.pc = "send", !.obj = db[id],
                                     !.old = db[id].next_run_time]
        /\ UNCHANGED <<now, db, next_id, beat_schedule, beat_last_run, queue, poller,
                       wire, svc, calls, impl, celery_available, util>>

\* webhook.image(path): open the file, post it base64-encoded.
\* webhook.file(path): open the file, upload it (the answer must carry a
\* media_id), send the file message.  Everything that raises here is caught by
\* the handlers around the call
TrigSendFile ==
    LET row == trig.obj
        kind == row.message_type
        returns(r, raised) ==
            [trig EXCEPT !.pc = "idle", !.ret = r, !.obj = <<>>,
                         !.called = IF raised = "none" THEN <<>>
                                    ELSE <<WebhookCall(kind, row.file_path, raised)>>]
    IN  /\ trig.pc = "send" /\ impl = "sync" /\ kind \in FileKinds
        /\ \/ /\ no_file_path(row)
              /\ trig' = returns(Result(FALSE, requires_file_path(kind)), "none")
              /\ UNCHANGED wire
           \/ /\ ~no_file_path(row)
              /\ \E file_exists \in BOOLEAN, upload \in SendOutcomes :
                    IF ~file_exists
                    THEN /\ trig' = returns(Result(FALSE, file_not_found(kind)),
                                            "FileNotFoundError")
                         /\ UNCHANGED wire
                    ELSE IF kind = "file" /\ upload_media_raises(upload) # "none"
                    THEN /\ trig' = [returns(Result(FALSE,
                                        failed_to_send(kind, upload_media_raises(upload))),
                                        "Exception")
                                      EXCEPT !.upload = upload]
                         /\ UNCHANGED wire
                    ELSE \E outcome \in SendOutcomes :
                         /\ Len(wire) < MaxWire
                         /\ wire' = Append(wire,
                               Request(trig.task_id, kind, row.file_path, "trigger",
                                       0, trig.occ, outcome))
                         /\ trig' = [IF outcome = "transport"
                                     THEN returns(Result(FALSE,
                                                     failed_to_send(kind, "transport")),
                                                  "Exception")
                                     ELSE [trig EXCEPT !.pc = "finish", !.sent = outcome,
                                             !.called = <<WebhookCall(kind, row.file_path,
                                                                      "none")>>]
                                     EXCEPT !.upload = IF kind = "file" THEN upload
                                                       ELSE "none"]
        /\ UNCHANGED <<now, db, next_id, beat_schedule, beat_last_run, queue, poller, svc, calls, impl, celery_available, util>>

\* text, markdown and (in the async variant every other kind) text
TrigSendText ==
    LET row == trig.obj
    IN  /\ trig.pc = "send"
        /\ impl = "async" \/ row.message_type \notin FileKinds
        /\ Len(wire) < MaxWire
        /\ \E outcome \in SendOutcomes :
              /\ wire' = Append(wire,
                    Request(trig.task_id, trigger_message(row).msgtype,
                            trigger_message(row).content, "trigger", 0, trig.occ, outcome))
              /\ trig' = IF outcome = "transport"
                         THEN [trig EXCEPT !.pc = "idle", !.ret = execute_task_except,
                                 !.obj = <<>>,
                                 !.called = <<WebhookCall(trigger_message(row).msgtype,
                                                trigger_message(row).content, "Exception")>>]
                         ELSE [trig EXCEPT !.pc = "finish", !.sent = outcome,
                                 !.called = <<WebhookCall(trigger_message(row).msgtype,
                                                trigger_message(row).content, "none")>>]
        /\ UNCHANGED <<now, db, next_id, beat_schedule, beat_last_run, queue, poller, svc, calls, impl, celery_available, util>>

\* the answer is looked at: the sync variant computes and commits the next run
\* when errcode is 0 and only then; the async variant only reports
TrigFinish ==
    LET id == trig.task_id
        next_run_time == next_run[trig.obj.cron_expression][now]
        calcs == IF impl = "sync" /\ trig.sent = "errcode0" THEN 1 ELSE 0
        returns(r, commits) ==
            [trig EXCEPT !.pc = "idle", !.ret = r, !.obj = <<>>, !.calcs = calcs,
                         !.commits = commits,
                         !.data = IF r = execute_task_except THEN "none" ELSE trig.sent]
    IN  /\ trig.pc = "finish"
        /\ IF impl = "async" \/ trig.sent # "errcode0" \/ next_run_time = None
           THEN /\ trig' = returns(send_result(trig.sent), 0)
                /\ UNCHANGED db
           ELSE IF id \notin DOMAIN db
           THEN /\ trig' = returns(execute_task_except, 0)
                /\ UNCHANGED db
           ELSE \E commit_ok \in BOOLEAN :
                IF commit_ok
                THEN /\ db' = [db EXCEPT ![id].next_run_time = next_run_time]
                     /\ trig' = returns(send_result(trig.sent), 1)
                ELSE /\ trig' = returns(execute_task_except, 0)
                     /\ UNCHANGED db
        /\ UNCHANGED <<now, next_id, beat_schedule, beat_last_run, queue, poller, wire, svc, calls, impl, celery_available, util>>

---------------------------------------------------------------------------
(* Time, and the system as a whole.                                        *)

Tick ==
    /\ now < MaxTime
    /\ now' = now + 1
    /\ UNCHANGED <<db, next_id, beat_schedule, beat_last_run, queue, poller, trig, wire, svc, calls, impl, celery_available, util>>

\* the state after construction, but for util
Constructed ==
    /\ celery_available = TRUE
    /\ now = 0
    /\ db = <<>>
    /\ next_id = 1
    /\ beat_schedule = register_check_due_tasks(empty_schedule)
    /\ beat_last_run = [k \in Keys |-> 0]
    /\ queue = 1
    /\ poller = [p \in Workers |-> IdlePoller]
    /\ trig = IdleTrigger
    /\ wire = <<>>
    /\ svc = Called("initialize_wecom_tasks", 0, "ok")
    /\ calls = 0
    /\ impl \in Impls

\* util before a function of schedule_utils is called with schedule_time
Uncalled(schedule_time) ==
    [schedule_time |-> schedule_time, stage |-> "input", parsed |-> FellThrough,
     t |-> None, next_run_time |-> None, again |-> None]

Init == Constructed /\ util = Uncalled(<<>>)

\* parse_schedule_time(schedule_time)
parse_schedule_time_call ==
    /\ util.stage = "input"
    /\ util' = [util EXCEPT !.stage = "parsed",
                            !.parsed = parse_schedule_time(util.schedule_time)]
    /\ UNCHANGED <<now, db, next_id, beat_schedule, beat_last_run, queue, poller, trig, wire, svc,
                   calls, impl, celery_available>>

\* calculate_next_run_time(cron_expression) with what parse_schedule_time
\* returned, while datetime.now() gives t
calculate_next_run_time_call(t) ==
    /\ util.stage = "parsed" /\ util.parsed.kind = "return"
    /\ util' = [util EXCEPT !.stage = "calculated", !.t = t,
                            !.next_run_time = calculate_next_run_time(util.parsed.value, t)]
    /\ UNCHANGED <<now, db, next_id, beat_schedule, beat_last_run, queue, poller, trig, wire, svc,
                   calls, impl, celery_available>>

\* calculate_next_run_time(cron_expression) once more, while datetime.now()
\* gives the instant that the first call returned
calculate_next_run_time_again ==
    /\ util.stage = "calculated" /\ util.next_run_time # None
    /\ util' = [util EXCEPT !.stage = "again",
                            !.again = calculate_next_run_time(util.parsed.value,
                                                              util.next_run_time)]
    /\ UNCHANGED <<now, db, next_id, beat_schedule, beat_last_run, queue, poller, trig, wire, svc,
                   calls, impl, celery_available>>

CreateOf(types, schedules) ==
    \E message_type \in types, schedule_time \in schedules :
        create_task("n", "url", message_type, "hello", schedule_time)

UpdateOf(updates) ==
    \E task_id \in Ids, update_data \in updates : update_task(task_id, update_data)

Delete == \E task_id \in Ids : delete_task(task_id)

Startup == initialize_wecom_tasks

Poll == \E p \in Workers : PollStart(p) \/ PollStep(p)

Trigger ==
    \/ \E task_id \in Ids : TrigFire(task_id)
    \/ TrigRead
    \/ TrigSendFile
    \/ TrigSendText
    \/ TrigFinish

Idle == \A p \in Workers : poller[p].pc = "idle"

\* the celery modules stop being importable or celery_app.conf starts raising,
\* or the reverse
celery_outage ==
    /\ celery_available' = ~celery_available
    /\ UNCHANGED <<now, db, next_id, beat_schedule, beat_last_run, queue, poller, trig, wire, svc,
                   calls, impl, util>>

\* The workers and the service layer: up to two overlapping invocations of the
\* poller, while records that run every minute are created, set inactive,
\* given a schedule that cannot be evaluated, and deleted.
PollerUpdates == {[status |-> 0], [schedule_time |-> S_unparsable]}

Next ==
    \/ Tick
    \/ CreateOf({"text"}, {S_every_minute})
    \/ UpdateOf(PollerUpdates)
    \/ Delete
    \/ Poll

Spec == Init /\ [][Next]_vars

\* One worker, and nothing else happens while an invocation of the poller runs.
NextIsolated ==
    \/ Idle /\ Tick
    \/ Idle /\ CreateOf({"text"}, {S_every_minute})
    \/ Idle /\ UpdateOf(PollerUpdates)
    \/ Idle /\ Delete
    \/ Idle /\ Startup
    \/ PollStart("w1")
    \/ PollStep("w1")

SpecIsolated == Init /\ [][NextIsolated]_vars

\* One worker that runs the poller and the per-record trigger task, for one
\* record of kind text or file that runs every minute.
TriggerUpdates == {[status |-> 0], [file_path |-> "/f"]}

NextTrigger ==
    \/ Tick
    \/ next_id = 1 /\ CreateOf(MessageTypes, {S_every_minute})
    \/ UpdateOf(TriggerUpdates)
    \/ PollStart("w1")
    \/ PollStep("w1")
    \/ Trigger

SpecTrigger == Init /\ [][NextTrigger]_vars

\* The service layer alone, over all the inputs.
NextService ==
    \/ Tick
    \/ CreateOf(MessageTypes, ScheduleInputs)
    \/ UpdateOf(UpdateInputs)
    \/ Delete
    \/ Startup

SpecService == Init /\ [][NextService]_vars

\* The service layer with delete_task in its two steps.
DeleteUpdates == {[status |-> 0], [status |-> 1]}

NextDelete ==
    \/ Tick
    \/ ~Deleting /\ CreateOf({"text"}, {S_every_minute, S_daily_9})
    \/ ~Deleting /\ UpdateOf(DeleteUpdates)
    \/ ~Deleting /\ \E task_id \in Ids : delete_task_commit(task_id)
    \/ delete_task_deregister

SpecDelete == Init /\ [][NextDelete]_vars

\* The registry functions called on their own, with expressions that
\* parse_schedule_time gives, and the start of the application.
RegistryExpressions ==
    {parsed_schedule[st].value : st \in {S_every_minute, S_daily_9, S_weekly}}

NextRegistry ==
    \/ Tick
    \/ \E task_id \in Ids, c \in RegistryExpressions : register_celery_task_call(task_id, c)
    \/ \E task_id \in Ids, c \in RegistryExpressions : update_celery_task_call(task_id, c)
    \/ \E task_id \in Ids : delete_celery_task_call(task_id)
    \/ register_check_due_tasks_call
    \/ Startup

SpecRegistry == Init /\ [][NextRegistry]_vars

\* The service layer and the registry functions for one record, while celery
\* comes and goes.
OutageUpdates == {[status |-> 0], [schedule_time |-> S_daily_9]}

NextOutage ==
    \/ Tick
    \/ celery_outage
    \/ next_id = 1 /\ CreateOf({"text"}, {S_every_minute})
    \/ UpdateOf(OutageUpdates)
    \/ Delete
    \/ Startup
    \/ register_celery_task_call(1, parsed_schedule[S_daily_9].value)
    \/ update_celery_task_call(1, parsed_schedule[S_daily_9].value)
    \/ delete_celery_task_call(1)

SpecOutage == Init /\ [][NextOutage]_vars

\* One worker and one record that runs every minute, while update_task gives
\* the record a schedule whose next run is days away.
RescheduleUpdates == {[schedule_time |-> S_daily_9]}

NextReschedule ==
    \/ Tick
    \/ next_id = 1 /\ CreateOf({"text"}, {S_every_minute})
    \/ UpdateOf(RescheduleUpdates)
    \/ PollStart("w1")
    \/ PollStep("w1")

SpecReschedule == Init /\ [][NextReschedule]_vars

\* One worker that runs the poller and the trigger task for one text record,
\* one at a time with the service calls; the record is given a schedule that
\* cannot be evaluated, possibly while celery is unavailable, so that its
\* trigger stays as it was.
TrigIdle == trig.pc = "idle"

NoValueUpdates == {[schedule_time |-> S_unparsable]}

NextNoValue ==
    \/ Tick
    \/ Idle /\ TrigIdle /\ celery_outage
    \/ Idle /\ TrigIdle /\ next_id = 1 /\ CreateOf({"text"}, {S_every_minute})
    \/ Idle /\ TrigIdle /\ UpdateOf(NoValueUpdates)
    \/ Idle /\ TrigIdle /\ Startup
    \/ TrigIdle /\ PollStart("w1")
    \/ PollStep("w1")
    \/ Idle /\ \E task_id \in Ids : TrigFire(task_id)
    \/ TrigRead
    \/ TrigSendText
    \/ TrigFinish

SpecNoValue == Init /\ [][NextNoValue]_vars

\* The functions of schedule_utils alone: a schedule_time is parsed, the next
\* run of the expression is calculated at some instant, and again at the
\* instant that came out.
InitScheduleUtils == Constructed /\ util \in {Uncalled(st) : st \in ParseInputs}

NextScheduleUtils ==
    \/ parse_schedule_time_call
    \/ \E t \in RefInstants : calculate_next_run_time_call(t)
    \/ calculate_next_run_time_again

SpecScheduleUtils == InitScheduleUtils /\ [][NextScheduleUtils]_vars

\* The API handlers for creating and updating, and create_task of the service
\* called with what a body of the API can carry.
NextApi ==
    \/ Tick
    \/ \E body \in CreateBodies : create_wecom_task(body)
    \/ \E task_id \in Ids, body \in UpdateBodies : update_wecom_task(task_id, body)
    \/ CreateOf(MessageKinds, {S_every_minute})

SpecApi == Init /\ [][NextApi]_vars

\* execute_wecom_task on one record of each kind: the record is created, may
\* get a file path or a schedule no next run can be computed from (the entry of
\* the registry stays as it was when Celery cannot be imported), and the entry
\* of the record fires.
ExecuteUpdates == {[file_path |-> "/f"], [schedule_time |-> S_unparsable]}

NextExecute ==
    \/ Tick
    \/ TrigIdle /\ celery_outage
    \/ next_id = 1 /\ CreateOf(MessageKinds, {S_every_minute})
    \/ TrigIdle /\ UpdateOf(ExecuteUpdates)
    \/ Trigger

SpecExecute == Init /\ [][NextExecute]_vars

\* One worker that runs the poller and the trigger task for one text record
\* that is set inactive and active again; update_task is called between the
\* runs, so that a run sees the status that was committed before it started.
DeactivateUpdates == {[status |-> 0], [status |-> 1]}

NextDeactivate ==
    \/ Tick
    \/ next_id = 1 /\ CreateOf({"text"}, {S_every_minute})
    \/ Idle /\ TrigIdle /\ UpdateOf(DeactivateUpdates)
    \/ PollStart("w1")
    \/ PollStep("w1")
    \/ \E task_id \in Ids : TrigFire(task_id)
    \/ TrigRead
    \/ TrigSendText
    \/ TrigFinish

SpecDeactivate == Init /\ [][NextDeactivate]_vars

\* update_task on one record and on an id without a record, while the store
\* may fail to persist the update.
FailingUpdates == {[status |-> 0], [schedule_time |-> S_daily_9], [schedule_time |-> S_weekly]}

NextUpdateFails ==
    \/ Tick
    \/ next_id = 1 /\ CreateOf({"text"}, {S_every_minute})
    \/ UpdateOf(FailingUpdates)
    \/ \E task_id \in Ids, update_data \in FailingUpdates :
          update_task_store_fails(task_id, update_data)

SpecUpdateFails == Init /\ [][NextUpdateFails]_vars

\* One worker that runs the poller and the trigger task, for records that run
\* every minute and records whose schedule cannot be parsed, while update_task
\* gives a record a new schedule and the application is started again.
NullUpdates == {[schedule_time |-> S_every_minute]}

NextNull ==
    \/ Tick
    \/ CreateOf({"text"}, {S_every_minute, S_unparsable})
    \/ Idle /\ TrigIdle /\ UpdateOf(NullUpdates)
    \/ Idle /\ TrigIdle /\ Startup
    \/ PollStart("w1")
    \/ PollStep("w1")
    \/ \E task_id \in Ids : TrigFire(task_id)
    \/ TrigRead
    \/ TrigSendText
    \/ TrigFinish

SpecNull == Init /\ [][NextNull]_vars

\* The poller as the only mechanism: Celery cannot be imported when the record
\* is created, so the record has no entry of its own in the registry.  Beat
\* sends wecom_check_due_tasks in every minute, the store answers, and a worker
\* that took the request goes on with it.
PollStartOk(p) ==
    /\ beat_last_run[PollerKey] < now
    /\ PollStart(p)
    /\ poller'[p].ret # check_due_tasks_except

NextLive ==
    \/ Tick
    \/ next_id = 1 /\ celery_available /\ celery_outage
    \/ ~celery_available /\ next_id = 1
           /\ CreateOf(MessageKinds, {S_every_minute, S_every_second_minute})
    \/ PollStartOk("w1")
    \/ PollStep("w1")

SpecLive ==
    /\ Init /\ [][NextLive]_vars
    /\ WF_vars(Tick) /\ WF_vars(PollStartOk("w1")) /\ WF_vars(PollStep("w1"))

---------------------------------------------------------------------------
(* Properties.                                                             *)

\* worker p has run an invocation of the poller to its end
Finished(p) == poller[p].pc = "idle" /\ poller[p].inv > 0

\* the requests that invocation inv of worker p made for record id
RequestsOf(w, p, inv, id) ==
    {i \in DOMAIN w : w[i].by = p /\ w[i].inv = inv /\ w[i].task_id = id}

\* the step with which worker p ends an invocation
Returns(p) == PollStep(p) /\ poller'[p].pc = "idle"

\* the destination answered the request of the record
Answered(e) == e.outcome \in {"errcode0", "errcodeN"}

\* C1: for every record that was active and due when an invocation
\* of the poller selected it and whose request the destination answered (with
\* errcode 0 or with another errcode), the invocation sent exactly one message
\* and stored a next run strictly later than the one it found.
C1_OneMessageAndLater ==
    \A id \in Ids :
        (Finished("w1") /\ id \in DOMAIN poller["w1"].log
            /\ Answered(poller["w1"].log[id]))
        => /\ poller["w1"].log[id].sent = 1
           /\ poller["w1"].log[id].new > poller["w1"].log[id].old

\* C2: for one record and one scheduled minute, the poller and the record's
\* own trigger task together get at most one message to the destination.
C2_OnePerOccurrence ==
    \A i, j \in DOMAIN wire :
        ~ /\ wire[i].by = "trigger" /\ wire[j].by \in Workers
          /\ wire[i].task_id = wire[j].task_id
          /\ wire[i].occ = wire[j].occ
          /\ wire[i].outcome # "transport" /\ wire[j].outcome # "transport"

\* C3: two invocations of the poller never both send for the same record and
\* the same stored next run, and never both find the same next_run_time of a
\* record and both overwrite it.
C3_Serialized ==
    /\ \A i, j \in DOMAIN wire :
          ~ /\ wire[i].by = "w1" /\ wire[j].by = "w2"
            /\ wire[i].task_id = wire[j].task_id
            /\ wire[i].occ = wire[j].occ
    /\ \A id \in DOMAIN poller["w1"].log \cap DOMAIN poller["w2"].log :
          ~ /\ poller["w1"].log[id].old = poller["w2"].log[id].old
            /\ poller["w1"].log[id].persist = "ok"
            /\ poller["w2"].log[id].persist = "ok"

\* C4: no step of an invocation of the poller sends a request for, or changes
\* any field of, a record that was inactive with a next_run_time in the past
\* when the invocation made its selection.
C4_InactiveUntouched ==
    [][\A p \in Workers :
          (PollStart(p) \/ PollStep(p)) =>
              \A id \in poller'[p].skipped :
                  /\ id \notin Range(poller'[p].due_tasks)
                  /\ id \in DOMAIN db => (id \in DOMAIN db' /\ db'[id] = db[id])
                  /\ RequestsOf(wire', p, poller'[p].inv, id) = {}]_vars

\* an invocation that passed over an inactive record with a past
\* next_run_time has returned its summary
C4_Witness ==
    \E p \in Workers :
        /\ Finished(p) /\ poller[p].ret.success
        /\ \E id \in poller[p].skipped :
              /\ id \in DOMAIN db /\ db[id].status = 0
              /\ db[id].next_run_time # None /\ db[id].next_run_time <= poller[p].current_time

\* C5: the poller never sends twice for the same record and the same stored
\* next run when the sends fail (a non-zero errcode, or no answer at all).
C5_OneAttempt ==
    \A i, j \in DOMAIN wire :
        ~ /\ i < j
          /\ wire[i].by \in Workers /\ wire[j].by \in Workers
          /\ wire[i].task_id = wire[j].task_id
          /\ wire[i].occ = wire[j].occ
          /\ wire[i].outcome # "errcode0" /\ wire[j].outcome # "errcode0"

\* C6: a send that fails never reaches the per-record processing of the poller
\* as an exception: what the poller has in hand after a request is a result,
\* a success for errcode 0 and a failure for everything else.
C6_NoException ==
    \A p \in Workers : \A id \in DOMAIN poller[p].log :
        poller[p].log[id].outcome # "raised"

\* C7: when the trigger task has sent a file message and the destination has
\* answered a non-zero errcode, the task reports a failure with the errmsg and
\* the next_run_time of the record is later than what the task found.
C7_FileFailureAdvances ==
    (/\ trig.pc = "idle" /\ trig.run > 0 /\ trig.sent = "errcodeN"
     /\ trig.task_id \in DOMAIN db
     /\ \E i \in DOMAIN wire :
           /\ wire[i].by = "trigger" /\ wire[i].msgtype = "file"
           /\ wire[i].outcome = "errcodeN")
    => /\ trig.ret = Result(FALSE, "errmsg")
       /\ db[trig.task_id].next_run_time > trig.old

\* C8: when an invocation of the poller has ended after finding the store
\* reachable, every record it selected that is still in the store has been
\* dispatched, whatever happened to the other records of the selection.
C8_OthersProcessed ==
    \A p \in Workers :
        Finished(p) =>
            \A id \in Range(poller[p].due_tasks) \cap DOMAIN db :
                poller[p].log[id].outcome # "none"

\* C9: every invocation of check_due_tasks that has ended has returned a
\* summary with a success flag and a message, and an invocation that has not
\* ended can take its next step (unless the bound on requests is reached).
C9_ReturnsSummary ==
    \A p \in Workers :
        /\ Finished(p) =>
              /\ poller[p].ret.kind = "return"
              /\ poller[p].ret.success \in BOOLEAN
              /\ poller[p].ret.message # ""
        /\ poller[p].pc # "idle" => (Len(wire) >= MaxWire \/ ENABLED PollStep(p))

\* an invocation has ended in the outer handler, with success false
C9_Witness ==
    \E p \in Workers :
        Finished(p) /\ poller[p].ret.kind = "return" /\ ~poller[p].ret.success

\* C10: the registry has the key wecom_task_<id> exactly for the records that
\* are in the store with status 1.
C10_RegisteredIffActive ==
    \A id \in Ids :
        TaskKey(id) \in DOMAIN beat_schedule
            <=> (id \in DOMAIN db /\ db[id].status = 1)

\* C11: delete_task takes the trigger of a record out of the registry before it
\* removes the record: in no state is the key wecom_task_<id> registered while
\* the store has no record with that id.
C11_DeregisteredBeforeRemoved ==
    \A id \in Ids :
        TaskKey(id) \in DOMAIN beat_schedule => id \in DOMAIN db

\* the triggers that the registry holds for record id
TriggersOf(schedule, id) == {k \in DOMAIN schedule : schedule[k].args = <<id>>}

\* C12: when update_task has given a record a new schedule (update_celery_task
\* has run with the new expression), the registry holds exactly one trigger
\* for the record and it is the trigger built from the new expression.
C12_UpdateReplaces ==
    [][\A id \in Ids, st \in ScheduleInputs :
          (update_task(id, [schedule_time |-> st]) /\ svc'.outcome = "ok")
          => /\ TriggersOf(beat_schedule', id) = {TaskKey(id)}
             /\ beat_schedule'[TaskKey(id)].schedule
                    = register_crontab(parsed_schedule[st].value)]_vars

\* the entries of schedule other than the one under key k
Others(schedule, k) == [x \in DOMAIN schedule \ {k} |-> schedule[x]]

\* C13: a call of register_celery_task(id, c) leaves the registry as a second
\* call with the same arguments leaves it again; it adds no second trigger for
\* id and changes no other entry; and when id was registered before, the
\* entry of id is now the one built from c.
C13_RegisterOverwrites ==
    [][\A id \in Ids, c \in RegistryExpressions :
          register_celery_task_call(id, c)
          => /\ register_celery_task(beat_schedule', id, c) = beat_schedule'
             /\ TriggersOf(beat_schedule', id) \subseteq {TaskKey(id)}
             /\ Others(beat_schedule', TaskKey(id)) = Others(beat_schedule, TaskKey(id))
             /\ TaskKey(id) \in DOMAIN beat_schedule
                    => /\ TaskKey(id) \in DOMAIN beat_schedule'
                       /\ beat_schedule'[TaskKey(id)].schedule = register_crontab(c)]_vars

\* C14: a call of delete_celery_task(id) returns normally; when id has no
\* trigger the registry is left as it was, and when it has one the key of id is
\* removed and every other entry, the poller's included, is left as it was.
C14_DeregisterFrame ==
    [][\A id \in Ids :
          delete_celery_task_call(id)
          => /\ svc'.outcome = "ok"
             /\ TaskKey(id) \notin DOMAIN beat_schedule => beat_schedule' = beat_schedule
             /\ TaskKey(id) \in DOMAIN beat_schedule
                    => /\ TaskKey(id) \notin DOMAIN beat_schedule'
                       /\ beat_schedule' = Others(beat_schedule, TaskKey(id))]_vars

\* delete_celery_task has removed the trigger of one record while the trigger
\* of another record and the poller trigger are registered
C14_Witness ==
    /\ svc.op = "delete_celery_task"
    /\ TaskKey(svc.task_id) \notin DOMAIN beat_schedule
    /\ PollerKey \in DOMAIN beat_schedule
    /\ \E id \in Ids \ {svc.task_id} : TaskKey(id) \in DOMAIN beat_schedule

\* the entry that register_check_due_tasks installs
PollerEntry ==
    [task |-> "wecom_check_due_tasks",
     schedule |-> crontab(<<"*">>, <<"*">>, <<"*">>, <<"*">>, <<"*">>), args |-> <<>>]

C16_SubstrateUnavailable ==
    [][(~celery_available /\ now' = now /\ celery_available' = celery_available)
       => /\ svc'.outcome \in {"ok", "NotFoundError"}
          /\ (calls' # calls /\ svc'.op = "create_task")
                => svc'.task_id \in DOMAIN db' \ DOMAIN db
          /\ (calls' # calls /\ svc'.op = "delete_task" /\ svc'.outcome = "ok")
                => svc'.task_id \in DOMAIN db \ DOMAIN db'
          /\ (calls' # calls /\ svc'.op = "update_task" /\ svc'.outcome = "ok")
                => \E ud \in OutageUpdates :
                      /\ update_task(svc'.task_id, ud)
                      /\ "status" \in DOMAIN ud
                            => db'[svc'.task_id].status = ud["status"]
                      /\ has_schedule_time(ud)
                            => db'[svc'.task_id].cron_expression
                                  = parsed_schedule[ud["schedule_time"]].value]_vars

\* create_task has stored a record while celery was unavailable; the record
\* has no trigger
C16_Witness ==
    /\ ~celery_available
    /\ svc.op = "create_task" /\ svc.outcome = "ok"
    /\ svc.task_id \in DOMAIN db
    /\ TaskKey(svc.task_id) \notin DOMAIN beat_schedule

\* the record that worker p is working on
Current(p) == poller[p].due_tasks[poller[p].idx]

\* C17: the step in which a poller stores a next run does not bring back a
\* record that was deleted since the poller selected it, changes no other
\* record, and changes no field but next_run_time of its record: what
\* update_task wrote to the other fields since the selection stays.
C17_WriteKeepsConcurrentChanges ==
    [][\A p \in Workers :
          (SyncRearm(p) \/ AsyncRearm(p))
          => /\ DOMAIN db' = DOMAIN db
             /\ \A id \in DOMAIN db \ {Current(p)} : db'[id] = db[id]
             /\ Current(p) \in DOMAIN db
                   => \A f \in Fields \ {"next_run_time"} :
                         db'[Current(p)][f] = db[Current(p)][f]]_vars

\* a poller has come to store the next run of a record that was deleted after
\* the poller selected it
C17_Witness ==
    \E p \in Workers : \E id \in DOMAIN poller[p].log :
        /\ poller[p].log[id].persist \in {"stale", "norow"}
        /\ id \notin DOMAIN db

\* C18: no step of an invocation of the poller adds or removes a record or
\* changes the name, webhook_url, message_type, message_content, file_path,
\* cron_expression or status of any record (the id of a record is its key).
C18_PollerWritesOnlyNextRun ==
    [][\A p \in Workers :
          (PollStart(p) \/ PollStep(p))
          => /\ DOMAIN db' = DOMAIN db
             /\ \A id \in DOMAIN db : \A f \in Fields \ {"next_run_time"} :
                   db'[id][f] = db[id][f]]_vars

\* an invocation has ended after storing a later next run for a record
C18_Witness ==
    \E p \in Workers : \E id \in DOMAIN poller[p].log \cap DOMAIN db :
        /\ Finished(p)
        /\ poller[p].log[id].persist = "ok"
        /\ db[id].next_run_time = poller[p].log[id].new
        /\ poller[p].log[id].new > poller[p].log[id].old

\* C19: every step that stores a next_run_time (not None) stores an instant
\* that is not before the clock of the step, and a step of the poller or of
\* the trigger task never puts an earlier instant in the place of the
\* next_run_time that the record had.
C19_NextRunNeverEarlier ==
    [][\A id \in DOMAIN db' :
          (/\ db'[id].next_run_time # None
           /\ id \in DOMAIN db => db[id].next_run_time # db'[id].next_run_time)
          => /\ db'[id].next_run_time >= now
             /\ (/\ poller' # poller \/ trig' # trig
                 /\ id \in DOMAIN db
                 /\ db[id].next_run_time # None)
                => db'[id].next_run_time >= db[id].next_run_time]_vars

\* C20: calculate_next_run_time gives an instant after the clock or no value,
\* and no step changes the next_run_time of a record whose cron_expression (as
\* the step leaves it) has no next run: not update_task, not the poller, not
\* the trigger task and not initialize_wecom_tasks.
C20_NoValueKeepsNextRun ==
    [][/\ \A c \in CronExpressions :
             next_run[c][now] = None \/ next_run[c][now] > now
       /\ \A id \in DOMAIN db \cap DOMAIN db' :
             next_run[db'[id].cron_expression][now] = None
             => db'[id].next_run_time = db[id].next_run_time]_vars

\* the trigger task has sent the message of a record whose cron_expression
\* has no next run, got errcode 0, and has left the next_run_time as it was
C20_Witness ==
    /\ impl = "sync"
    /\ trig.pc = "idle" /\ trig.run > 0 /\ trig.sent = "errcode0"
    /\ trig.ret = Result(TRUE, "sent")
    /\ trig.task_id \in DOMAIN db
    /\ next_run[db[trig.task_id].cron_expression][now] = None
    /\ db[trig.task_id].next_run_time = trig.old

\* the fields minute, hour, day-of-month, month and day-of-week of an
\* expression: of six fields the first is the seconds field, as
\* parse_schedule_time takes it (lines 23-25), and "?" stands for "*"
schedule_fields(c) ==
    LET fields == split(replace(c, "?", "*"))
    IN  IF Len(fields) = 6 THEN Tail(fields) ELSE fields

\* x, an instant of January, is an instant of the schedule with these fields
cron_satisfied(fields, x) ==
    /\ cron_field_matches(fields[1], 1, x % 60)
    /\ cron_field_matches(fields[2], 2, (x \div 60) % 24)
    /\ croniter_day_matches(fields, x \div 1440)

\* C21: what calculate_next_run_time returns for an expression of
\* parse_schedule_time is later than the clock it was computed from, is an
\* instant of the schedule, and no instant between the two (looking Window
\* minutes ahead of the clock) is one; computed again with the clock at that
\* instant, the result is later still.
C21_EarliestThenLater ==
    /\ (util.stage \in {"calculated", "again"} /\ util.next_run_time # None)
          => /\ util.next_run_time > util.t
             /\ util.next_run_time < 31 * 1440
                   => cron_satisfied(schedule_fields(util.parsed.value), util.next_run_time)
             /\ \A x \in (util.t + 1) .. Min({util.next_run_time - 1, util.t + Window}) :
                   ~cron_satisfied(schedule_fields(util.parsed.value), x)
    /\ util.stage = "again"
          => /\ util.again # None
             /\ util.again > util.next_run_time

\* C22: the cron_expression of every stored record has exactly five
\* whitespace-separated fields and is a cron expression that croniter accepts
\* (so it is not a natural-language schedule_time either).
C22_StoredIsFiveFieldCron ==
    \A id \in DOMAIN db :
        /\ Len(split(db[id].cron_expression)) = 5
        /\ ~croniter_raises(db[id].cron_expression)

\* parse_schedule_time has been called with schedule_time
Parsed(schedule_time) == util.stage # "input" /\ util.schedule_time = schedule_time

\* C23: called with text that is neither a cron expression that croniter
\* accepts nor a phrase of the vocabulary (no keyword, no text, a time that is
\* no number, a time with two colons, a cron field out of range),
\* parse_schedule_time returns 0 0 0 * * ? and raises nothing.
C23_FallbackNeverRaises ==
    \A st \in OtherInputs \cup {C_minute_99} :
        Parsed(st) => util.parsed = Returned(default_cron)

\* the six-field expression second 0, minute, hour, day-of-month, every month,
\* day-of-week
Canonical(minute, hour, day_of_month, day_of_week) ==
    <<"0", " ">> \o minute \o <<" ">> \o hour \o <<" ">> \o day_of_month
        \o <<" ", "*", " ">> \o day_of_week

\* C24: for a phrase of the vocabulary parse_schedule_time returns the
\* documented expression: 0 M H * * ? for every day at H[:M], 0 M H ? * W for
\* every week on weekday W at H[:M] (Sunday is 0, also when written 7),
\* 0 M H D * ? for every month on day D at H[:M], with M = 0 when no minute
\* is given.
C24_DocumentedExpression ==
    /\ Parsed(S_daily_9) => util.parsed = Returned(Canonical(<<"0">>, <<"9">>, <<"*">>, <<"?">>))
    /\ Parsed(S_daily_0) => util.parsed = Returned(Canonical(<<"0">>, <<"0">>, <<"*">>, <<"?">>))
    /\ Parsed(S_daily_930)
          => util.parsed = Returned(Canonical(<<"3", "0">>, <<"9">>, <<"*">>, <<"?">>))
    /\ Parsed(S_daily_fw)
          => util.parsed = Returned(Canonical(<<"3", "0">>, <<"9">>, <<"*">>, <<"?">>))
    /\ Parsed(S_weekly)
          => util.parsed = Returned(Canonical(<<"3", "0">>, <<"8">>, <<"?">>, <<"1">>))
    /\ Parsed(S_weekly_no_dian)
          => util.parsed = Returned(Canonical(<<"3", "0">>, <<"8">>, <<"?">>, <<"1">>))
    /\ Parsed(S_weekly_xingqi)
          => util.parsed = Returned(Canonical(<<"0">>, <<"9">>, <<"?">>, <<"0">>))
    /\ Parsed(S_weekly_7)
          => util.parsed = Returned(Canonical(<<"0">>, <<"9">>, <<"?">>, <<"0">>))
    /\ Parsed(S_monthly) => util.parsed = Returned(Canonical(<<"0">>, <<"0">>, <<"1">>, <<"?">>))
    /\ Parsed(S_monthly_15)
          => util.parsed = Returned(Canonical(<<"3", "0">>, <<"9">>, <<"1", "5">>, <<"?">>))

NextMidnight(t) == ((t \div 1440) + 1) * 1440

\* C26: create_task for a text record with the schedule "every day at 0"
\* stores the cron_expression 0 0 0 * * ? and, as next_run_time, the first
\* midnight after the call.
C26_DailyMidnightRecord ==
    [][create_task("n", "url", "text", "hello", S_daily_0)
       => /\ svc'.outcome = "ok"
          /\ svc'.task_id \in DOMAIN db'
          /\ db'[svc'.task_id].cron_expression = default_cron
          /\ db'[svc'.task_id].next_run_time # None
          /\ db'[svc'.task_id].next_run_time = NextMidnight(now)]_vars

\* a column that holds a value
populated(value) == value # NoneStr /\ value # ""

C28_ImageNeedsFilePath ==
    [][\A body \in CreateBodies :
          (/\ body.message_type = "image"
           /\ "file_path" \notin DOMAIN body
           /\ create_wecom_task(body))
          => /\ svc'.outcome = "422 File path is required"
             /\ db' = db
             /\ beat_schedule' = beat_schedule]_vars

\* what execute_wecom_task hands to the webhook for a record of a kind
handed(row) ==
    IF row.message_type \in FileKinds THEN row.file_path ELSE row.message_content

\* an invocation of the sync execute_wecom_task for an existing record of one of
\* the four kinds ends after the destination answered errcode 0, and raises
\* nothing
EndsAnswered ==
    /\ TrigFinish
    /\ impl = "sync"
    /\ trig.sent = "errcode0"
    /\ trig.obj.message_type \in MessageKinds
    /\ trig.obj.status = 1
    /\ trig.task_id \in DOMAIN db
    /\ trig'.ret # execute_task_except

\* the one matching webhook method was called with the content or the path,
\* the next run was computed once, and success is returned with the answer
CalledAndReported ==
    /\ trig'.called = <<WebhookCall(trig.obj.message_type, handed(trig.obj), "none")>>
    /\ trig'.calcs = 1
    /\ trig'.ret.success
    /\ trig'.data = "errcode0"

\* C29 as stated: for an existing active record of kind text, markdown, image
\* or file, when the destination answers errcode 0, execute_wecom_task calls
\* exactly the one matching webhook method with the content or the file path,
\* computes the next run once, commits the new next_run_time exactly once and
\* returns success with the answer of the destination.
C29_SendCommitsOnce ==
    [][EndsAnswered
          => /\ CalledAndReported
             /\ trig'.commits = 1
             /\ db'[trig.task_id].next_run_time # None
             /\ db'[trig.task_id].next_run_time
                    = calculate_next_run_time(trig.obj.cron_expression, now)]_vars

\* what the code does instead: the new next_run_time is committed exactly once
\* when the calculation gives a value; when it gives none, nothing is
\* committed, the stored next_run_time stays, and success is still returned.
SendCommitsOnceIfValue ==
    [][EndsAnswered
          => /\ CalledAndReported
             /\ IF calculate_next_run_time(trig.obj.cron_expression, now) # None
                THEN /\ trig'.commits = 1
                     /\ db'[trig.task_id].next_run_time
                            = calculate_next_run_time(trig.obj.cron_expression, now)
                ELSE /\ trig'.commits = 0
                     /\ db' = db]_vars

\* an image record with a file path was sent and its later next run committed
SentAndCommitted ==
    /\ impl = "sync"
    /\ trig.pc = "idle"
    /\ trig.called = <<WebhookCall("image", "/f", "none")>>
    /\ trig.calcs = 1
    /\ trig.commits = 1
    /\ trig.ret = Result(TRUE, "sent")
    /\ trig.task_id \in DOMAIN db
    /\ db[trig.task_id].next_run_time > trig.old

\* C30: for an active image or file record, when file_path is empty no webhook
\* send is made, and when the single send raises FileNotFoundError, in both
\* cases execute_wecom_task returns success = false with the matching message,
\* computes no next run, commits nothing, and next_run_time keeps its value.
C30_NoFileNoNextRun ==
    [][(TrigSendFile /\ trig.obj.status = 1)
          => /\ (trig.obj.file_path \in {NoneStr, ""})
                  => /\ trig'.called = <<>>
                     /\ wire' = wire
                     /\ trig'.pc = "idle"
                     /\ trig'.ret = Result(FALSE,
                            IF trig.obj.message_type = "image"
                            THEN "Image message type requires a file_path."
                            ELSE "File message type requires a file_path.")
                     /\ trig'.calcs = 0 /\ trig'.commits = 0
                     /\ db' = db
             /\ (trig'.called # <<>> /\ trig'.called[1].raised = "FileNotFoundError")
                  => /\ Len(trig'.called) = 1
                     /\ wire' = wire
                     /\ trig'.pc = "idle"
                     /\ trig'.ret = Result(FALSE,
                            IF trig.obj.message_type = "image"
                            THEN "Image file not found" ELSE "File not found")
                     /\ trig'.calcs = 0 /\ trig'.commits = 0
                     /\ db' = db]_vars

\* the file of an image record was not found, and the record is as it was read
C30_Witness ==
    /\ impl = "sync"
    /\ trig.pc = "idle"
    /\ trig.called = <<WebhookCall("image", "/f", "FileNotFoundError")>>
    /\ trig.ret = Result(FALSE, "Image file not found")
    /\ trig.task_id \in DOMAIN db
    /\ db[trig.task_id].status = 1
    /\ db[trig.task_id].next_run_time = trig.old

\* C31: the type of every message the poller sends for a due record equals the
\* kind of the record when that kind is text, markdown, image or file; an image
\* or file record is sent from its file_path, never as a text message built
\* from message_content.
C31_PollerSendsKind ==
    \A i \in DOMAIN wire :
        LET id == wire[i].task_id
        IN  (wire[i].by \in Workers /\ id \in DOMAIN db
                /\ db[id].message_type \in MessageKinds)
               => /\ wire[i].msgtype = db[id].message_type
                  /\ db[id].message_type \in FileKinds
                        => wire[i].payload = db[id].file_path

\* what execute_wecom_task returns when the send step of a file dispatch fails:
\* the destination answers another errcode, or the request raises
DeliveryFailures ==
    {send_result("errcodeN"), Result(FALSE, failed_to_send("file", "transport"))}

\* C32: in a file dispatch the send request is made only after the upload
\* answered with a media_id; when the answer of the upload has no media_id, no
\* send request is made and what is returned is a failure that differs from
\* every failure of the send step.
C32_UploadThenSend ==
    [][(TrigSendFile /\ trig.obj.message_type = "file")
          => /\ wire' # wire => trig'.upload = "errcode0"
             /\ trig'.upload = "errcodeN"
                  => /\ wire' = wire
                     /\ trig'.pc = "idle"
                     /\ ~trig'.ret.success
                     /\ trig'.ret \notin DeliveryFailures]_vars

\* the upload of a file record was answered without a media_id and the run
\* returned its failure without a request to the destination
C32_Witness ==
    /\ impl = "sync"
    /\ trig.pc = "idle"
    /\ trig.upload = "errcodeN"
    /\ trig.called = <<WebhookCall("file", "/f", "Exception")>>
    /\ trig.ret = Result(FALSE, "Failed to send file: 'media_id'")
    /\ \A i \in DOMAIN wire : wire[i].by # "trigger"

\* the poller sent a message for the occurrence t of record id
Dispatched(id, t) ==
    \E i \in DOMAIN wire :
        wire[i].task_id = id /\ wire[i].by \in Workers /\ wire[i].occ = t

\* C33: when the poller keeps being invoked, every active record with a
\* next_run_time that has passed is eventually dispatched for it, also when the
\* record has no trigger of its own in the registry.
C33_EventuallyDispatched ==
    \A id \in Ids, t \in Instants :
        (/\ id \in DOMAIN db
         /\ db[id].status = 1
         /\ db[id].next_run_time = t
         /\ t <= now) ~> Dispatched(id, t)

\* a record without an entry in the registry was dispatched by the poller
C33_Witness ==
    /\ 1 \in DOMAIN db
    /\ TaskKey(1) \notin DOMAIN beat_schedule
    /\ Dispatched(1, 1)
    /\ db[1].next_run_time > 1

\* C34: a record created with a schedule that cannot be parsed is stored with
\* the fallback expression and a next_run_time that is not null, so that the
\* poller finds it due, dispatches it and arms it again.
C34_FallbackRecordArmed ==
    [][\A message_type \in MessageTypes :
          create_task("n", "url", message_type, "hello", S_unparsable)
             => /\ svc'.outcome = "ok"
                /\ svc'.task_id \in DOMAIN db'
                /\ db'[svc'.task_id].cron_expression = default_cron
                /\ db'[svc'.task_id].next_run_time # None
                /\ is_due(db'[svc'.task_id], db'[svc'.task_id].next_run_time)]_vars

\* C35: once the deactivation of a record is committed, no run of the poller
\* or of the trigger task of the record that starts afterwards sends a message
\* for it or changes its next_run_time, until it is active again.
C35_DeactivatedNotSent ==
    [][calls' = calls
          => \A id \in DOMAIN db :
                db[id].status = 0
                   => /\ wire' # wire => wire'[Len(wire')].task_id # id
                      /\ id \in DOMAIN db'
                      /\ db'[id].next_run_time = db[id].next_run_time]_vars

\* next_run_time is what calculate_next_run_time gives for cron_expression at
\* some instant up to now
NextRunOf(cron_expression, next_run_time) ==
    \E t \in 0..now : calculate_next_run_time(cron_expression, t) = next_run_time

\* C36: when no poll cycle, trigger run or update is in progress, a
\* next_run_time that is not null is a next run of the cron_expression the
\* record has now: a run that read the record before update_task changed its
\* schedule has not put a next run of the old schedule in its place.
C36_NextRunOfCurrentSchedule ==
    (Idle /\ TrigIdle)
       => \A id \in DOMAIN db :
             db[id].next_run_time # None
                => NextRunOf(db[id].cron_expression, db[id].next_run_time)

\* C37: no message is sent for a record after its deletion is committed: a
\* request for record id goes out only while record id is in the store.
C37_NoSendAfterDelete ==
    [][wire' # wire => wire'[Len(wire')].task_id \in DOMAIN db]_vars

\* the step is made by a run of the poller or of the trigger task that has
\* sent, or tried to send, a message for record id
AttemptedDispatch(id) ==
    \/ \E p \in Workers :
          /\ PollStep(p)
          /\ id \in DOMAIN poller[p].log
          /\ poller[p].log[id].sent > 0
    \/ /\ TrigFinish
       /\ trig.task_id = id
       /\ trig.called # <<>>

\* C38: no occurrence is skipped silently: the next_run_time of an active
\* record that is due is moved forward only by a run that also tried to send a
\* message for the record; initialize_wecom_tasks does not move it.
C38_NoSilentSkip ==
    [][\A id \in DOMAIN db \cap DOMAIN db' :
          (/\ is_due(db[id], now)
           /\ db'[id].next_run_time # None
           /\ db'[id].next_run_time > db[id].next_run_time)
             => AttemptedDispatch(id)]_vars

\* C39: when update_task fails and raises, because the record is not found or
\* because persisting the update fails, the store and the registry are as they
\* were before the call.
C39_FailedUpdateChangesNothing ==
    [][(/\ calls' # calls
        /\ svc'.op = "update_task"
        /\ svc'.outcome \in {"NotFoundError", "ServerError"})
          => /\ db' = db
             /\ beat_schedule' = beat_schedule]_vars

\* C40: a record whose next_run_time is null is never selected as due: no poll
\* cycle dispatches it or gives it a next_run_time, which stays null until
\* update_task with a new schedule or initialize_wecom_tasks computes a value.
C40_NullNeverDue ==
    [][\A id \in DOMAIN db :
          db[id].next_run_time = None
             => /\ \A p \in Workers : id \notin Range(poller'[p].due_tasks)
                /\ (wire' # wire /\ wire'[Len(wire')].by \in Workers)
                      => wire'[Len(wire')].task_id # id
                /\ (id \in DOMAIN db' /\ db'[id].next_run_time # None)
                      => /\ calls' # calls
                         /\ svc'.op \in {"update_task", "initialize_wecom_tasks"}]_vars

\* a poll cycle dispatched record 2 while record 1, created before it, had no
\* next_run_time, and record 1 still has none
C40_Witness ==
    /\ DOMAIN db = {1, 2}
    /\ db[1].status = 1
    /\ db[1].next_run_time = None
    /\ Finished("w1")
    /\ Dispatched(2, db[2].next_run_time) \/ Dispatched(2, 1)
    /\ \A i \in DOMAIN wire : wire[i].task_id # 1

===========================================================================
